---------------------------- MODULE Spec2Model ----------------------------
(***************************************************************************)
(* Sunshine-list pipeline: string canonicalization, alias resolution and   *)
(* the temporal identity linker (API/scripts/*.py).                        *)
(*                                                                         *)
(* Text is modelled as a sequence of one-character strings, so that        *)
(* upper-casing, character filtering, whitespace collapsing and substring  *)
(* replacement are computed character by character, as Python does.        *)
(***************************************************************************)
EXTENDS Integers, Sequences, FiniteSets, TLC

VARIABLES
    df,          \* link_persons.py: the DataFrame read from INPUT_FILE (rows in arrival order)
    fact,        \* link_persons.py: the DataFrame returned by fast_link_persons
    link_pc,     \* link_persons.py main(): "load" while reading, "linked" after fast_link_persons
    text,        \* normalize_string: the value a normalization routine is applied to
    prev_text,   \* normalize_string: the argument of the latest application
    variant,     \* normalize_string: which routine was applied ("none", "employer", "job")
    passes,      \* normalize_string: how many times it was applied
    stg_rows,          \* API/staging/stg_rows.parquet: the staged rows
    employer_aliases,  \* API/dictionaries/employer_aliases.csv: [exists, rows]
    job_aliases,       \* API/dictionaries/job_title_aliases.csv: [exists, rows]
    enriched,          \* API/staging/stg_rows_enriched.parquet
    dim_employer,      \* API/curated/dim_employer.parquet
    enriched_2,        \* API/staging/stg_rows_enriched_2.parquet
    dim_job,           \* API/curated/dim_job.parquet
    canon_pc,          \* the canonicalization stages run so far: "staging", "employers", "jobs"
    canonical_title,  \* infer_family: the canonical job title it is applied to
    family,      \* infer_family: the value returned
    family_pc,   \* infer_family: "title" before the call, "inferred" after it
    fact_comp,         \* API/curated/fact_comp.parquet as read by generate_analytics_complex.py
    merged_frames,     \* generate_employer_metrics: the merged frame of every year after the first
    employer_metrics,  \* API/analytics/employer_metrics.json: employer_id -> list of metrics
    metrics_pc,  \* generate_analytics_complex.py main(): "facts" while reading, "done" at the end
    args,             \* run_pipeline.py: the parsed command line
    missing_scripts,  \* run_pipeline.py: the stage scripts that are not in SCRIPT_DIR
    stages_to_run,    \* run_pipeline.py main(): the stages selected
    stage_idx,        \* run_pipeline.py main(): position of the loop in stages_to_run
    started,          \* the stages whose script was launched, in launch order
    stage_written,    \* how many of its output files the running stage has written
    written,          \* the output files written during this run, in order
    failed_stages,    \* run_pipeline.py main(): failed_stages
    exit_code,        \* run_pipeline.py: the status of sys.exit, -1 while running
    pipe_pc,     \* run_pipeline.py main(): "args", "loop", "running", "summary", "exited"
    raw_files,       \* ingest.py: the CSV files of API/raw, in sorted order
    file_idx,        \* ingest.py: position of the loop in files
    all_dfs,         \* ingest.py: all_dfs
    outcomes,        \* ingest.py: what the loop did with every file so far
    final_df,        \* ingest.py: the rows written to API/staging/stg_rows.parquet
    output_written,  \* ingest.py: whether to_parquet wrote OUTPUT_FILE in this run
    ingest_pc,   \* ingest.py: "loop" in the file loop, "done" at the end of the script
    report_input,   \* validate_data.py: INPUT_FILE, [exists, rows] of API/curated/fact_comp.parquet
    now,            \* the wall clock that datetime.now() reads: [second, microsecond]
    report_file,    \* API/analytics/data_quality_report.json: <<>> or <<the report>>
    run_reports,    \* what every finished run of validate_data.py left in OUTPUT_FILE
    validate_pc  \* validate_data.py: "idle" when the stage is not under study, else "ready"

linkVars == <<df, fact, link_pc>>
normVars == <<text, prev_text, variant, passes>>
canonVars == <<stg_rows, employer_aliases, job_aliases, enriched, dim_employer,
               enriched_2, dim_job, canon_pc>>
familyVars == <<canonical_title, family, family_pc>>
metricVars == <<fact_comp, merged_frames, employer_metrics, metrics_pc>>
pipeVars == <<args, missing_scripts, stages_to_run, stage_idx, started, stage_written,
              written, failed_stages, exit_code, pipe_pc>>
ingestVars == <<raw_files, file_idx, all_dfs, outcomes, final_df, output_written, ingest_pc>>
validateVars == <<report_input, now, report_file, run_reports, validate_pc>>
restVars == <<familyVars, metricVars, pipeVars, ingestVars, validateVars>>
vars == <<linkVars, normVars, canonVars, restVars>>

----------------------------------------------------------------------------
(* Bounds of the model *)

MaxRecords == 3      \* rows in the linker's input
MaxYear == 4         \* years are 1..MaxYear
MaxLen == 5          \* characters of a text the normalization routines are tried on
MaxPasses == 2       \* repeated applications of a normalization routine
MaxRows == 2         \* staged rows the canonicalization stages run on
MaxWords == 2        \* words of a canonical job title infer_family is tried on
MaxFacts == 3        \* rows of fact_comp the metrics are computed on
MaxFactYear == 3     \* years of fact_comp are 1..MaxFactYear
MaxReportRows == 2   \* rows of the fact table the validation stage reads
MaxSecond == 1       \* the wall clock runs over the seconds 0..MaxSecond
MaxRuns == 2         \* runs of the validation stage
MaxMissing == 1      \* stage scripts that may be missing from SCRIPT_DIR
MaxFiles == 2        \* CSV files in API/raw
MaxFileRows == 2     \* data rows of a CSV file

----------------------------------------------------------------------------
(* Python text primitives *)

LowerCase == <<"a","b","c","d","e","f","g","h","i","j","k","l","m",
               "n","o","p","q","r","s","t","u","v","w","x","y","z">>
UpperCase == <<"A","B","C","D","E","F","G","H","I","J","K","L","M",
               "N","O","P","Q","R","S","T","U","V","W","X","Y","Z">>
Digits == <<"0","1","2","3","4","5","6","7","8","9">>

\* The characters of the model in code-point order (Python compares str by code point).
CodeOrder == <<"\t", "\n", "\r", " ", "$", ",", "-", ".", "/">> \o Digits \o UpperCase \o LowerCase

Range(f) == {f[i] : i \in DOMAIN f}

OrdOf == [c \in Range(CodeOrder) |-> CHOOSE i \in DOMAIN CodeOrder : CodeOrder[i] = c]
Ord(c) == OrdOf[c]

\* str.isspace() / regex \s
Whitespace == {" ", "\t", "\n", "\r"}

\* str.upper(), one character
UpperOf == [c \in Range(LowerCase) |-> UpperCase[CHOOSE i \in DOMAIN LowerCase : LowerCase[i] = c]]
UpperChar(c) == IF c \in DOMAIN UpperOf THEN UpperOf[c] ELSE c

\* str.upper()
Upper(s) == [i \in DOMAIN s |-> UpperChar(s[i])]

\* str.lstrip()
RECURSIVE LStrip(_)
LStrip(s) ==
    IF s # <<>> /\ Head(s) \in Whitespace THEN LStrip(Tail(s)) ELSE s

\* str.rstrip()
RECURSIVE RStrip(_)
RStrip(s) ==
    IF s # <<>> /\ s[Len(s)] \in Whitespace THEN RStrip(SubSeq(s, 1, Len(s) - 1)) ELSE s

\* str.strip()
Strip(s) == LStrip(RStrip(s))

\* str < str : lexicographic by code point
RECURSIVE StrLess(_, _)
StrLess(a, b) ==
    IF b = <<>> THEN FALSE
    ELSE IF a = <<>> THEN TRUE
    ELSE IF Head(a) # Head(b) THEN Ord(Head(a)) < Ord(Head(b))
    ELSE StrLess(Tail(a), Tail(b))

\* str(int) for a non-negative int
RECURSIVE IntToStr(_)
IntToStr(n) ==
    IF n < 10 THEN <<Digits[n + 1]>> ELSE IntToStr(n \div 10) \o <<Digits[(n % 10) + 1]>>

\* A value that is not a str (None, float NaN): a tuple that is no character sequence.
NaN == <<"NaN">>

\* isinstance(s, str)
IsStr(x) == x # NaN

\* The characters of s that belong to keep: re.sub('[^...]', '', s)
RECURSIVE KeepChars(_, _)
KeepChars(s, keep) ==
    IF s = <<>> THEN <<>>
    ELSE IF Head(s) \in keep THEN <<Head(s)>> \o KeepChars(Tail(s), keep)
    ELSE KeepChars(Tail(s), keep)

\* s, already stripped, with every run of whitespace turned into one space
RECURSIVE CollapseRuns(_)
CollapseRuns(s) ==
    IF s = <<>> THEN <<>>
    ELSE IF Head(s) \in Whitespace THEN <<" ">> \o CollapseRuns(LStrip(s))
    ELSE <<Head(s)>> \o CollapseRuns(Tail(s))

\* " ".join(s.split())
JoinSplit(s) == CollapseRuns(Strip(s))

\* s.replace(old, new): the non-overlapping occurrences of old, left to right
RECURSIVE Replace(_, _, _)
Replace(s, old, new) ==
    IF Len(s) < Len(old) THEN s
    ELSE IF SubSeq(s, 1, Len(old)) = old
         THEN new \o Replace(SubSeq(s, Len(old) + 1, Len(s)), old, new)
         ELSE <<Head(s)>> \o Replace(Tail(s), old, new)

UpperSet == Range(UpperCase)
DigitSet == Range(Digits)

----------------------------------------------------------------------------
(* link_persons.py *)

\* Values of the staged columns the linker reads (the staged text is stripped by ingest).
FirstNames == {<<>>, <<"j">>}
LastNames == {<<"s">>}
EmployerIds == {11, 22}
JobFamilies == {"Other", "Police"}
Years == 1..MaxYear
TotalComps == {100, 200}

InputRows ==
    [first_name : FirstNames, last_name : LastNames, employer_id : EmployerIds,
     job_family : JobFamilies, year : Years, total_comp : TotalComps]

\* df['name_clean'] = (first_name + " " + last_name).astype(str).str.upper().str.strip()
name_clean(r) == Strip(Upper(r.first_name \o <<" ">> \o r.last_name))

\* name_counts = df['name_clean'].value_counts(); df['name_freq'] = df['name_clean'].map(name_counts)
name_freq(rows, i) == Cardinality({j \in DOMAIN rows : rows[j].name_clean = rows[i].name_clean})

\* The sort key of df.sort_values(by=['name_clean', 'year', 'total_comp'])
KeyLess(a, b) ==
    \/ StrLess(a.name_clean, b.name_clean)
    \/ /\ a.name_clean = b.name_clean
       /\ \/ a.year < b.year
          \/ a.year = b.year /\ a.total_comp < b.total_comp

\* DataFrame.sort_values on several columns is a stable lexicographic sort: a row
\* comes after the rows with a smaller key and after the earlier rows with an equal
\* key, so rows that tie on the whole key keep their arrival order.
sort_position(rows, i) ==
    1 + Cardinality({j \in DOMAIN rows :
                        \/ KeyLess(rows[j], rows[i])
                        \/ j < i /\ ~KeyLess(rows[i], rows[j])})

sort_values(rows) ==
    [k \in DOMAIN rows |-> rows[CHOOSE i \in DOMAIN rows : sort_position(rows, i) = k]]

\* name_match = (df['name_clean'] == df['prev_name']); shift(1) leaves NaN in the
\* first row and a comparison with NaN is False.
name_match(rows, i) == i > 1 /\ rows[i].name_clean = rows[i - 1].name_clean

\* emp_match = (df['employer_id'] == df['prev_employer'])
emp_match(rows, i) == i > 1 /\ rows[i].employer_id = rows[i - 1].employer_id

\* year_diff = df['year'] - df['prev_year'];  (year_diff <= 2), False on NaN
year_diff_ok(rows, i) == i > 1 /\ rows[i].year - rows[i - 1].year <= 2

should_link_NoEmployer(rows, i) == name_match(rows, i) /\ year_diff_ok(rows, i)

should_link_Gap1(rows, i) ==
    name_match(rows, i) /\ emp_match(rows, i) /\ i > 1 /\ rows[i].year - rows[i - 1].year <= 1

should_link_Gap3(rows, i) ==
    name_match(rows, i) /\ emp_match(rows, i) /\ i > 1 /\ rows[i].year - rows[i - 1].year <= 3

should_link_JobFamily(rows, i) ==
    /\ name_match(rows, i) /\ emp_match(rows, i) /\ year_diff_ok(rows, i)
    /\ rows[i].job_family = rows[i - 1].job_family

\* should_link = name_match & emp_match & (year_diff <= 2)
should_link(rows, i) == name_match(rows, i) /\ emp_match(rows, i) /\ year_diff_ok(rows, i)

person_group_id_FromZero(rows, i) == Cardinality({j \in 2..i : ~should_link(rows, j)})

\* df['person_group_id'] = (~should_link).cumsum()
person_group_id(rows, i) == Cardinality({j \in 1..i : ~should_link(rows, j)})

\* df[name] = value on one row: the column is added (or replaced) and every other
\* column of the row is left as it is
AddColumn(r, name, value) ==
    [c \in DOMAIN r \cup {name} |-> IF c = name THEN value ELSE r[c]]

\* Step 1 of fast_link_persons: the name_clean column.
\* idx is the row's index label, which every later step carries along.
WithNameClean(rows) ==
    [i \in DOMAIN rows |-> AddColumn(rows[i], "name_clean", name_clean(rows[i]))]

\* Step 2 of fast_link_persons: the name_freq column.
WithNameFreq(rows) ==
    [i \in DOMAIN rows |-> AddColumn(rows[i], "name_freq", name_freq(rows, i))]

\* Steps 4-5 of fast_link_persons on the sorted frame: match_confidence and
\* person_id = person_group_id.astype(str); the temporary columns are dropped.
WithPersonIds(sorted) ==
    [i \in DOMAIN sorted |->
        AddColumn(AddColumn(sorted[i], "match_confidence", "High"),
                  "person_id", IntToStr(person_group_id(sorted, i)))]

\* fast_link_persons(df)
fast_link_persons(rows) == WithPersonIds(sort_values(WithNameFreq(WithNameClean(rows))))

\* pd.read_parquet(INPUT_FILE), one row at a time; the frame gets a RangeIndex.
LoadRow ==
    /\ link_pc = "load"
    /\ Len(df) < MaxRecords
    /\ \E r \in InputRows :
          df' = Append(df, [idx |-> Len(df),
                            first_name |-> r.first_name, last_name |-> r.last_name,
                            employer_id |-> r.employer_id, job_family |-> r.job_family,
                            year |-> r.year, total_comp |-> r.total_comp])
    /\ UNCHANGED <<fact, link_pc>>
    /\ UNCHANGED <<normVars, canonVars, restVars>>

\* main(): df = fast_link_persons(df)
LinkPersons ==
    /\ link_pc = "load"
    /\ fact' = fast_link_persons(df)
    /\ link_pc' = "linked"
    /\ UNCHANGED df
    /\ UNCHANGED <<normVars, canonVars, restVars>>

\* The linker has not been started.
IdleLink ==
    /\ df = <<>>
    /\ fact = <<>>
    /\ link_pc = "load"

\* No normalization routine has been applied to anything.
IdleNorm ==
    /\ text = <<>>
    /\ prev_text = <<>>
    /\ variant = "none"
    /\ passes = 0

\* No canonicalization stage has run and nothing is staged.
IdleCanon ==
    /\ stg_rows = <<>>
    /\ employer_aliases = [exists |-> FALSE, rows |-> <<>>]
    /\ job_aliases = [exists |-> FALSE, rows |-> <<>>]
    /\ enriched = <<>>
    /\ dim_employer = <<>>
    /\ enriched_2 = <<>>
    /\ dim_job = <<>>
    /\ canon_pc = "staging"

\* infer_family not called
IdleFamily ==
    /\ canonical_title = <<>>
    /\ family = "Other"
    /\ family_pc = "idle"

\* generate_analytics_complex.py not run
IdleMetrics ==
    /\ fact_comp = <<>>
    /\ merged_frames = <<>>
    /\ employer_metrics = <<>>
    /\ metrics_pc = "idle"

\* run_pipeline.py not run
IdlePipe ==
    /\ args = [validate_only |-> FALSE, stage |-> "", from_stage |-> "", skip_validation |-> FALSE]
    /\ missing_scripts = {}
    /\ stages_to_run = <<>>
    /\ stage_idx = 1
    /\ started = <<>>
    /\ stage_written = 0
    /\ written = <<>>
    /\ failed_stages = <<>>
    /\ exit_code = -1
    /\ pipe_pc = "idle"

\* ingest.py not run
IdleIngest ==
    /\ raw_files = <<>>
    /\ file_idx = 1
    /\ all_dfs = <<>>
    /\ outcomes = <<>>
    /\ final_df = <<>>
    /\ output_written = FALSE
    /\ ingest_pc = "idle"

IdleValidate ==
    /\ report_input = [exists |-> FALSE, rows |-> <<>>]
    /\ now = [second |-> 0, microsecond |-> 0]
    /\ report_file = <<>>
    /\ run_reports = <<>>
    /\ validate_pc = "idle"

IdleRest == IdleFamily /\ IdleMetrics /\ IdlePipe /\ IdleIngest /\ IdleValidate

InitLink == IdleLink /\ IdleNorm /\ IdleCanon /\ IdleRest

NextLink == LoadRow \/ LinkPersons

SpecLink == InitLink /\ [][NextLink]_vars

----------------------------------------------------------------------------
(* Properties of the linker *)

Linked == link_pc = "linked"

\* The person chains of a linked frame, as sets of row labels.
Partition(rows) ==
    {{rows[j].idx : j \in {k \in DOMAIN rows : rows[k].person_id = rows[i].person_id}} :
        i \in DOMAIN rows}

\* The same rows in another arrival order.
ArrivalOrders(n) == {p \in [1..n -> 1..n] : \A a, b \in 1..n : p[a] = p[b] => a = b}
Permuted(rows, p) == [k \in DOMAIN rows |-> rows[p[k]]]

\* C1: two rows with the same person_id have the same name key and the same
\* employer_id, whatever their years.
C1_SamePersonSameNameAndEmployer ==
    Linked =>
        \A i, j \in DOMAIN fact :
            fact[i].person_id = fact[j].person_id =>
                /\ fact[i].name_clean = fact[j].name_clean
                /\ fact[i].employer_id = fact[j].employer_id

\* A chain spanning two years next to a row of the same name at another employer.
C1_Witness ==
    /\ Linked
    /\ \E i, j, k \in DOMAIN fact :
          /\ fact[i].person_id = fact[j].person_id
          /\ fact[i].year # fact[j].year
          /\ fact[k].name_clean = fact[i].name_clean
          /\ fact[k].employer_id # fact[i].employer_id
          /\ fact[k].person_id # fact[i].person_id

\* C2 as stated: same name key, same employer_id and years exactly 2 apart always
\* share a person_id, whatever other rows the stream holds.
C2_Gap2AlwaysLinks ==
    Linked =>
        \A i, j \in DOMAIN fact :
            ( /\ fact[i].name_clean = fact[j].name_clean
              /\ fact[i].employer_id = fact[j].employer_id
              /\ fact[j].year - fact[i].year = 2 )
            => fact[i].person_id = fact[j].person_id

\* C2 (amended): same name key, same employer_id and years exactly 2 apart share a
\* person_id when every row between them in scan order has that employer_id.
C2_Gap2LinksWhenNoOtherEmployerBetween ==
    Linked =>
        \A i, j \in DOMAIN fact :
            ( /\ i < j
              /\ fact[i].name_clean = fact[j].name_clean
              /\ fact[i].employer_id = fact[j].employer_id
              /\ fact[j].year - fact[i].year = 2
              /\ \A k \in i..j : fact[k].employer_id = fact[i].employer_id )
            => fact[i].person_id = fact[j].person_id

\* Two rows 2 years apart link although the name group holds a row of another employer.
C2_Witness ==
    /\ Linked
    /\ \E i, j, k \in DOMAIN fact :
          /\ i < j
          /\ fact[i].name_clean = fact[j].name_clean
          /\ fact[i].employer_id = fact[j].employer_id
          /\ fact[j].year - fact[i].year = 2
          /\ fact[i].person_id = fact[j].person_id
          /\ fact[k].name_clean = fact[i].name_clean
          /\ fact[k].employer_id # fact[i].employer_id

\* C3 as stated: same name key and employer_id with years 3 or more apart never
\* share a person_id, also with rows of that name and employer in between.
C3_Gap3NeverLinks ==
    Linked =>
        \A i, j \in DOMAIN fact :
            ( /\ fact[i].name_clean = fact[j].name_clean
              /\ fact[i].employer_id = fact[j].employer_id
              /\ fact[j].year - fact[i].year >= 3 )
            => fact[i].person_id # fact[j].person_id

\* C3 (amended): same name key and employer_id with years 3 or more apart never
\* share a person_id unless a row of that name and employer lies in a year strictly
\* between them.
C3_Gap3SplitsUnlessBridged ==
    Linked =>
        \A i, j \in DOMAIN fact :
            ( /\ fact[i].name_clean = fact[j].name_clean
              /\ fact[i].employer_id = fact[j].employer_id
              /\ fact[j].year - fact[i].year >= 3
              /\ ~ \E k \in DOMAIN fact :
                      /\ fact[k].name_clean = fact[i].name_clean
                      /\ fact[k].employer_id = fact[i].employer_id
                      /\ fact[i].year < fact[k].year
                      /\ fact[k].year < fact[j].year )
            => fact[i].person_id # fact[j].person_id

\* Two rows of one name and employer exactly 3 years apart, adjacent in scan order, split.
C3_Witness ==
    /\ Linked
    /\ \E i \in DOMAIN fact :
          /\ i > 1
          /\ fact[i].name_clean = fact[i - 1].name_clean
          /\ fact[i].employer_id = fact[i - 1].employer_id
          /\ fact[i].year - fact[i - 1].year = 3
          /\ fact[i].person_id # fact[i - 1].person_id

\* fact is in scan order: name key, then year, then total_comp, ascending.
InScanOrder ==
    \A i, j \in DOMAIN fact :
        i < j =>
            \/ StrLess(fact[i].name_clean, fact[j].name_clean)
            \/ /\ fact[i].name_clean = fact[j].name_clean
               /\ \/ fact[i].year < fact[j].year
                  \/ fact[i].year = fact[j].year /\ fact[i].total_comp <= fact[j].total_comp

\* C4: in scan order a row joins the chain of the row before it iff both have the
\* same name key, the same employer_id and years at most 2 apart; otherwise it
\* starts a chain no earlier row belongs to. Job family plays no part.
C4_LinkIffNameEmployerGap ==
    Linked =>
        /\ InScanOrder
        /\ \A i \in DOMAIN fact :
              i > 1 =>
                 IF /\ fact[i].name_clean = fact[i - 1].name_clean
                    /\ fact[i].employer_id = fact[i - 1].employer_id
                    /\ fact[i].year - fact[i - 1].year <= 2
                 THEN fact[i].person_id = fact[i - 1].person_id
                 ELSE \A j \in 1..(i - 1) : fact[j].person_id # fact[i].person_id

\* A row joins the chain of the row before it although their job families differ,
\* and another row breaks the chain.
C4_Witness ==
    /\ Linked
    /\ \E i, k \in DOMAIN fact :
          /\ i > 1 /\ k > 1
          /\ fact[i].person_id = fact[i - 1].person_id
          /\ fact[i].job_family # fact[i - 1].job_family
          /\ fact[i].year # fact[i - 1].year
          /\ fact[k].person_id # fact[k - 1].person_id
          /\ fact[k].name_clean = fact[k - 1].name_clean

\* A chain start is a row no earlier row shares its person_id with.
ChainStart(i) == \A j \in 1..(i - 1) : fact[j].person_id # fact[i].person_id

\* C5: every person_id is the number of chain starts at or before the row (the first
\* row of the scan and of every name group being chain starts), so the ids used are
\* exactly 1..K for K chains.
C5_PersonIdCountsChainStarts ==
    (Linked /\ fact # <<>>) =>
        /\ \A i \in DOMAIN fact :
              fact[i].person_id = IntToStr(Cardinality({j \in 1..i : ChainStart(j)}))
        /\ \A i \in DOMAIN fact :
              (i = 1 \/ fact[i].name_clean # fact[i - 1].name_clean) => ChainStart(i)
        /\ {fact[i].person_id : i \in DOMAIN fact} =
              {IntToStr(k) : k \in 1..Cardinality(Partition(fact))}

\* Three rows in two chains over two name groups.
C5_Witness ==
    /\ Linked
    /\ Len(fact) = 3
    /\ fact[1].person_id = <<"1">>
    /\ fact[2].person_id = <<"1">>
    /\ fact[3].person_id = <<"2">>
    /\ fact[3].name_clean # fact[2].name_clean

\* C6: the partition into chains is the same for every arrival order of the rows.
C6_PartitionIndependentOfArrivalOrder ==
    Linked =>
        \A p \in ArrivalOrders(Len(df)) :
            Partition(fast_link_persons(Permuted(df, p))) = Partition(fact)

----------------------------------------------------------------------------
(* normalize_employers.py, normalize_jobs.py: normalize_string *)

\* normalize_employers.normalize_string
normalize_string_employer(s) ==
    IF ~IsStr(s) THEN <<>>
    ELSE JoinSplit(KeepChars(Upper(s), UpperSet \cup DigitSet \cup Whitespace \cup {"-"}))

\* normalize_jobs.normalize_string
normalize_string_job(s) ==
    IF ~IsStr(s) THEN <<>>
    ELSE LET s1 == Upper(s)
             s2 == Replace(s1, <<" ", "/", " ">>, <<"/">>)
             s3 == Replace(s2, <<" ", "-", " ">>, <<" ">>)
             s4 == Replace(s3, <<",">>, <<" ">>)
         IN  JoinSplit(KeepChars(s4, UpperSet \cup DigitSet \cup Whitespace \cup {"/"}))

\* The texts the routines are tried on: every text of at most MaxLen of these
\* characters, and a value that is not text.
NormAlphabet == {"a", " ", "/", "-", ",", "."}
Texts == UNION {[1..n -> NormAlphabet] : n \in 0..MaxLen}

\* x = normalize_string(x), the employer routine
ApplyEmployerNormalize ==
    /\ variant \in {"none", "employer"}
    /\ passes < MaxPasses
    /\ prev_text' = text
    /\ text' = normalize_string_employer(text)
    /\ variant' = "employer"
    /\ passes' = passes + 1
    /\ UNCHANGED <<linkVars, canonVars, restVars>>

\* x = normalize_string(x), the job-title routine
ApplyJobNormalize ==
    /\ variant \in {"none", "job"}
    /\ passes < MaxPasses
    /\ prev_text' = text
    /\ text' = normalize_string_job(text)
    /\ variant' = "job"
    /\ passes' = passes + 1
    /\ UNCHANGED <<linkVars, canonVars, restVars>>

InitNorm ==
    /\ text \in Texts \cup {NaN}
    /\ prev_text = <<>>
    /\ variant = "none"
    /\ passes = 0
    /\ IdleLink
    /\ IdleCanon
    /\ IdleRest

NextNorm == ApplyEmployerNormalize \/ ApplyJobNormalize

SpecNorm == InitNorm /\ [][NextNorm]_vars

\* C7: both normalization routines are total and idempotent: a second application
\* returns a text and leaves the result of the first unchanged.
C7_NormalizeIdempotent ==
    (passes >= 2) => (IsStr(text) /\ text = prev_text)

----------------------------------------------------------------------------
(* generate_alias_suggestions.py: normalize_for_comparison *)

\* \w of the regular expression
WordChars == UpperSet \cup Range(LowerCase) \cup DigitSet \cup {"_"}

\* INC|LTD|LIMITED|CORP|CORPORATION|THE|OF|AND
BoilerplateTokens ==
    {<<"I", "N", "C">>,
     <<"L", "T", "D">>,
     <<"L", "I", "M", "I", "T", "E", "D">>,
     <<"C", "O", "R", "P">>,
     <<"C", "O", "R", "P", "O", "R", "A", "T", "I", "O", "N">>,
     <<"T", "H", "E">>,
     <<"O", "F">>,
     <<"A", "N", "D">>}

\* s begins with the word t, t ending at a word boundary
StartsWithWord(s, t) ==
    /\ Len(s) >= Len(t)
    /\ SubSeq(s, 1, Len(t)) = t
    /\ (Len(s) = Len(t) \/ s[Len(t) + 1] \notin WordChars)

\* re.sub(r'\b(INC|...|AND)\b', '', s); afterWord: the character before s is a word character
RECURSIVE StripTokens(_, _)
StripTokens(s, afterWord) ==
    IF s = <<>> THEN <<>>
    ELSE IF ~afterWord /\ \E t \in BoilerplateTokens : StartsWithWord(s, t)
         THEN LET t == CHOOSE u \in BoilerplateTokens : StartsWithWord(s, u)
              IN  StripTokens(SubSeq(s, Len(t) + 1, Len(s)), TRUE)
         ELSE <<Head(s)>> \o StripTokens(Tail(s), Head(s) \in WordChars)

\* normalize_for_comparison
normalize_for_comparison(s) ==
    IF ~IsStr(s) THEN <<>>
    ELSE Strip(JoinSplit(KeepChars(StripTokens(Upper(s), FALSE),
                                   UpperSet \cup DigitSet \cup Whitespace)))

----------------------------------------------------------------------------
(* normalize_employers.py and normalize_jobs.py: main *)

\* hashlib.md5(x.encode('utf-8')).hexdigest()[:8] for the canonical names of the model
Md5Hex8Table ==
    {
    <<<<"A", "C", "M", "E">>,
      <<"3", "f", "b", "e", "b", "6", "a", "5">>>>,
    <<<<"A", "C", "M", "E", " ", "C", "O", "R", "P">>,
      <<"5", "8", "8", "4", "b", "8", "0", "5">>>>,
    <<<<"A", "C", "M", "E", " ", "I", "N", "C">>,
      <<"4", "b", "4", "d", "5", "3", "2", "2">>>>,
    <<<<"E", "L", "E", "M", "E", "N", "T", "A", "R", "Y", " ", "T", "E", "A", "C", "H", "E", "R">>,
      <<"c", "5", "1", "c", "b", "7", "c", "3">>>>,
    <<<<"H", "Y", "D", "R", "O", "-", "O", "N", "E">>,
      <<"1", "e", "0", "c", "e", "f", "8", "4">>>>,
    <<<<"N", "U", "R", "S", "E", " ", "/", " ", "R", "N">>,
      <<"b", "0", "d", "b", "a", "a", "5", "d">>>>,
    <<<<"N", "U", "R", "S", "E", "/", "R", "N">>,
      <<"5", "a", "1", "2", "e", "0", "b", "b">>>>,
    <<<<"P", "O", "L", "I", "C", "E", " ", "M", "A", "N", "A", "G", "E", "R">>,
      <<"c", "6", "4", "8", "f", "d", "3", "8">>>>,
    <<<<"R", "N">>,
      <<"b", "c", "c", "0", "2", "9", "c", "f">>>>,
    <<<<"T", "E", "A", "C", "H", "E", "R", " ", "E", "L", "E", "M", "E", "N", "T", "A", "R", "Y">>,
      <<"c", "6", "3", "a", "6", "5", "9", "f">>>>
    }

\* int(hashlib.md5(x.encode('utf-8')).hexdigest()[:8], 16): the 32-bit value, kept as
\* its 8 base-16 digits
md5_id(x) == (CHOOSE e \in Md5Hex8Table : e[1] = x)[2]

\* Staged employer texts: "Acme Inc", "ACME", "acme inc", "Hydro-One"
EmployerRaws ==
    {<<"A", "c", "m", "e", " ", "I", "n", "c">>,
     <<"A", "C", "M", "E">>,
     <<"a", "c", "m", "e", " ", "i", "n", "c">>,
     <<"H", "y", "d", "r", "o", "-", "O", "n", "e">>}

\* Staged job titles: "RN", "Nurse  /  RN", "Police Manager", "Teacher, Elementary"
JobTitleRaws ==
    {<<"R", "N">>,
     <<"N", "u", "r", "s", "e", " ", " ", "/", " ", " ", "R", "N">>,
     <<"P", "o", "l", "i", "c", "e", " ", "M", "a", "n", "a", "g", "e", "r">>,
     <<"T", "e", "a", "c", "h", "e", "r", ",", " ", "E", "l", "e", "m", "e", "n", "t", "a", "r", "y">>}

\* Staged sector labels
Sectors == {"Hospitals", "Municipalities"}

\* employer_aliases.csv: "Acme Inc" -> "Acme Corp."
EmployerAliasCsv ==
    <<[raw |-> <<"A", "c", "m", "e", " ", "I", "n", "c">>,
       canonical |-> <<"A", "c", "m", "e", " ", "C", "o", "r", "p", ".">>]>>

\* job_title_aliases.csv: "RN" -> "Nurse  /  RN", "Teacher, Elementary" -> "Elementary Teacher"
JobTitleAliasCsv ==
    <<[raw |-> <<"R", "N">>,
       canonical |-> <<"N", "u", "r", "s", "e", " ", " ", "/", " ", " ", "R", "N">>],
      [raw |-> <<"T", "e", "a", "c", "h", "e", "r", ",", " ", "E", "l", "e", "m", "e", "n", "t", "a", "r", "y">>,
       canonical |-> <<"E", "l", "e", "m", "e", "n", "t", "a", "r", "y", " ", "T", "e", "a", "c", "h", "e", "r">>]>>

\* The dictionary file: missing, or holding its rows.
AliasFiles(csv) == {[exists |-> FALSE, rows |-> <<>>], [exists |-> TRUE, rows |-> csv]}

\* Series.fillna(other)
Fillna(x, other) == IF x = NaN THEN other ELSE x

\* Series.map(dict(zip(aliases['raw'], aliases['canonical']))): the last row of a key
\* wins, a value that is no key maps to NaN
MapAlias(x, rows) ==
    IF \E i \in DOMAIN rows : rows[i].raw = x
    THEN rows[CHOOSE i \in DOMAIN rows :
                 /\ rows[i].raw = x
                 /\ \A j \in DOMAIN rows : rows[j].raw = x => j <= i].canonical
    ELSE NaN

\* DataFrame.drop_duplicates(): the first occurrence of every row, in order
RECURSIVE drop_duplicates(_)
drop_duplicates(rows) ==
    IF rows = <<>> THEN <<>>
    ELSE LET front == drop_duplicates(SubSeq(rows, 1, Len(rows) - 1))
             last == rows[Len(rows)]
         IN  IF \E j \in DOMAIN front : front[j] = last THEN front ELSE Append(front, last)

\* str.lower()
LowerOf == [c \in UpperSet |-> LowerCase[CHOOSE i \in DOMAIN UpperCase : UpperCase[i] = c]]
Lower(s) == [i \in DOMAIN s |-> IF s[i] \in DOMAIN LowerOf THEN LowerOf[s[i]] ELSE s[i]]

\* sub in s
Contains(s, sub) ==
    \E i \in 1..(Len(s) - Len(sub) + 1) : SubSeq(s, i, i + Len(sub) - 1) = sub

\* infer_family with the manager rule tried before the police rule
infer_family_ManagerFirst(title) ==
    LET t == Lower(title) IN
    IF Contains(t, <<"p", "r", "o", "f", "e", "s", "s", "o", "r">>) THEN "Academic"
    ELSE IF Contains(t, <<"t", "e", "a", "c", "h", "e", "r">>) \/ Contains(t, <<"p", "r", "i", "n", "c", "i", "p", "a", "l">>) THEN "Education"
    ELSE IF Contains(t, <<"n", "u", "r", "s", "e">>) THEN "Medical"
    ELSE IF Contains(t, <<"p", "h", "y", "s", "i", "c", "i", "a", "n">>) \/ Contains(t, <<"d", "o", "c", "t", "o", "r">>) THEN "Medical"
    ELSE IF Contains(t, <<"m", "a", "n", "a", "g", "e", "r">>) THEN "Management"
    ELSE IF \/ Contains(t, <<"p", "o", "l", "i", "c", "e">>)
            \/ Contains(t, <<"c", "o", "n", "s", "t", "a", "b", "l", "e">>)
            \/ Contains(t, <<"d", "e", "t", "e", "c", "t", "i", "v", "e">>) THEN "Police"
    ELSE IF Contains(t, <<"f", "i", "r", "e", "f", "i", "g", "h", "t", "e", "r">>) THEN "Fire"
    ELSE IF Contains(t, <<"e", "n", "g", "i", "n", "e", "e", "r">>) THEN "Engineering"
    ELSE IF Contains(t, <<"d", "i", "r", "e", "c", "t", "o", "r">>) THEN "Management"
    ELSE "Other"

\* normalize_jobs.infer_family
infer_family(title) ==
    LET t == Lower(title) IN
    IF Contains(t, <<"p", "r", "o", "f", "e", "s", "s", "o", "r">>) THEN "Academic"
    ELSE IF Contains(t, <<"t", "e", "a", "c", "h", "e", "r">>) \/ Contains(t, <<"p", "r", "i", "n", "c", "i", "p", "a", "l">>) THEN "Education"
    ELSE IF Contains(t, <<"n", "u", "r", "s", "e">>) THEN "Medical"
    ELSE IF Contains(t, <<"p", "h", "y", "s", "i", "c", "i", "a", "n">>) \/ Contains(t, <<"d", "o", "c", "t", "o", "r">>) THEN "Medical"
    ELSE IF \/ Contains(t, <<"p", "o", "l", "i", "c", "e">>)
            \/ Contains(t, <<"c", "o", "n", "s", "t", "a", "b", "l", "e">>)
            \/ Contains(t, <<"d", "e", "t", "e", "c", "t", "i", "v", "e">>) THEN "Police"
    ELSE IF Contains(t, <<"f", "i", "r", "e", "f", "i", "g", "h", "t", "e", "r">>) THEN "Fire"
    ELSE IF Contains(t, <<"e", "n", "g", "i", "n", "e", "e", "r">>) THEN "Engineering"
    ELSE IF Contains(t, <<"d", "i", "r", "e", "c", "t", "o", "r">>) THEN "Management"
    ELSE IF Contains(t, <<"m", "a", "n", "a", "g", "e", "r">>) THEN "Management"
    ELSE "Other"

\* normalize_employers.main, steps 1-3: employer_clean and employer_canonical of one row
employer_canonical(raw, aliases) ==
    LET clean == normalize_string_employer(Fillna(raw, <<>>))
        resolved == IF aliases.exists THEN Fillna(MapAlias(raw, aliases.rows), clean) ELSE clean
    IN  normalize_string_employer(resolved)

\* normalize_jobs.main, steps 1-2: job_clean and job_canonical of one row
job_canonical(raw, aliases) ==
    LET clean == normalize_string_job(raw)
        resolved == IF aliases.exists THEN Fillna(MapAlias(raw, aliases.rows), clean) ELSE clean
    IN  normalize_string_job(resolved)

\* the employer_clean and employer_canonical columns, computed once per staged text
EmployerCleanOf == [raw \in EmployerRaws |-> normalize_string_employer(Fillna(raw, <<>>))]
EmployerCanonicalOf ==
    [aliases \in AliasFiles(EmployerAliasCsv) |->
        [raw \in EmployerRaws |-> employer_canonical(raw, aliases)]]

\* normalize_employers.main: the rows with employer_clean and employer_canonical
WithEmployerCanonical(rows, aliases) ==
    [i \in DOMAIN rows |->
        AddColumn(AddColumn(rows[i], "employer_clean", EmployerCleanOf[rows[i].employer]),
                  "employer_canonical", EmployerCanonicalOf[aliases][rows[i].employer])]

\* unique_employers without drop_duplicates: one entity row per staged row
unique_employers_NoDedup(rows) ==
    [k \in DOMAIN rows |->
        [employer_canonical |-> rows[k].employer_canonical,
         employer_id |-> md5_id(rows[k].employer_canonical)]]

\* unique_employers: the distinct canonical names, each with its id
unique_employers(rows) ==
    LET names == drop_duplicates([i \in DOMAIN rows |-> rows[i].employer_canonical])
    IN  [k \in DOMAIN names |-> [employer_canonical |-> names[k], employer_id |-> md5_id(names[k])]]

\* df.merge(unique_employers, on='employer_canonical', how='left')
RECURSIVE merge_employers(_, _)
merge_employers(rows, uniq) ==
    IF rows = <<>> THEN <<>>
    ELSE LET r == Head(rows)
             hits == SelectSeq(uniq, LAMBDA u : u.employer_canonical = r.employer_canonical)
             joined == [k \in DOMAIN hits |-> AddColumn(r, "employer_id", hits[k].employer_id)]
             unmatched == <<AddColumn(r, "employer_id", NaN)>>
         IN  (IF hits = <<>> THEN unmatched ELSE joined) \o merge_employers(Tail(rows), uniq)

\* the job_clean, job_canonical and job_family columns, computed once per staged text
JobCleanOf == [raw \in JobTitleRaws |-> normalize_string_job(raw)]
JobCanonicalOf ==
    [aliases \in AliasFiles(JobTitleAliasCsv) |->
        [raw \in JobTitleRaws |-> job_canonical(raw, aliases)]]
JobFamilyOf ==
    [aliases \in AliasFiles(JobTitleAliasCsv) |->
        [raw \in JobTitleRaws |-> infer_family(JobCanonicalOf[aliases][raw])]]

\* normalize_jobs.main: the rows with job_clean, job_canonical and job_family
WithJobCanonical(rows, aliases) ==
    [i \in DOMAIN rows |->
        AddColumn(AddColumn(AddColumn(rows[i], "job_clean", JobCleanOf[rows[i].job_title]),
                            "job_canonical", JobCanonicalOf[aliases][rows[i].job_title]),
                  "job_family", JobFamilyOf[aliases][rows[i].job_title])]

\* unique_jobs: the distinct (job_canonical, job_family) pairs, each with its id
unique_jobs(rows) ==
    LET pairs == drop_duplicates([i \in DOMAIN rows |->
                     [job_canonical |-> rows[i].job_canonical, job_family |-> rows[i].job_family]])
    IN  [k \in DOMAIN pairs |->
            [job_canonical |-> pairs[k].job_canonical,
             job_family |-> pairs[k].job_family,
             job_id |-> md5_id(pairs[k].job_canonical)]]

\* df.merge(unique_jobs, on=['job_canonical', 'job_family'], how='left')
RECURSIVE merge_jobs(_, _)
merge_jobs(rows, uniq) ==
    IF rows = <<>> THEN <<>>
    ELSE LET r == Head(rows)
             hits == SelectSeq(uniq, LAMBDA u : /\ u.job_canonical = r.job_canonical
                                                /\ u.job_family = r.job_family)
             ids == IF hits = <<>> THEN <<NaN>> ELSE [k \in DOMAIN hits |-> hits[k].job_id]
         IN  [k \in DOMAIN ids |-> AddColumn(r, "job_id", ids[k])]
             \o merge_jobs(Tail(rows), uniq)

\* ingest.py writes one more row to stg_rows.parquet (its text columns stripped)
StageRow ==
    /\ canon_pc = "staging"
    /\ Len(stg_rows) < MaxRows
    /\ \E s \in Sectors, e \in EmployerRaws, j \in JobTitleRaws :
          stg_rows' = Append(stg_rows, [sector |-> s, employer |-> e, job_title |-> j])
    /\ UNCHANGED <<employer_aliases, job_aliases, enriched, dim_employer, enriched_2,
                   dim_job, canon_pc>>
    /\ UNCHANGED <<linkVars, normVars, restVars>>

\* normalize_employers.main
NormalizeEmployers ==
    /\ canon_pc = "staging"
    /\ LET rows == WithEmployerCanonical(stg_rows, employer_aliases)
           uniq == unique_employers(rows)
       IN  /\ dim_employer' = uniq
           /\ enriched' = merge_employers(rows, uniq)
    /\ canon_pc' = "employers"
    /\ UNCHANGED <<stg_rows, employer_aliases, job_aliases, enriched_2, dim_job>>
    /\ UNCHANGED <<linkVars, normVars, restVars>>

\* normalize_jobs.main
NormalizeJobs ==
    /\ canon_pc = "employers"
    /\ LET rows == WithJobCanonical(enriched, job_aliases)
           uniq == unique_jobs(rows)
       IN  /\ dim_job' = uniq
           /\ enriched_2' = merge_jobs(rows, uniq)
    /\ canon_pc' = "jobs"
    /\ UNCHANGED <<stg_rows, employer_aliases, job_aliases, enriched, dim_employer>>
    /\ UNCHANGED <<linkVars, normVars, restVars>>

InitCanon ==
    /\ stg_rows = <<>>
    /\ employer_aliases \in AliasFiles(EmployerAliasCsv)
    /\ job_aliases \in AliasFiles(JobTitleAliasCsv)
    /\ enriched = <<>>
    /\ dim_employer = <<>>
    /\ enriched_2 = <<>>
    /\ dim_job = <<>>
    /\ canon_pc = "staging"
    /\ IdleLink
    /\ IdleNorm
    /\ IdleRest

NextCanon == StageRow \/ NormalizeEmployers \/ NormalizeJobs

SpecCanon == InitCanon /\ [][NextCanon]_vars

----------------------------------------------------------------------------
(* Properties of canonicalization *)

\* s holds a boilerplate token as a whole word
HasBoilerplateWord(s) ==
    \E i \in DOMAIN s :
        /\ (i = 1 \/ s[i - 1] \notin WordChars)
        /\ \E t \in BoilerplateTokens : StartsWithWord(SubSeq(s, i, Len(s)), t)

\* the raw text is exactly a key of the override table
IsAliasKey(raw, aliases) == aliases.exists /\ \E k \in DOMAIN aliases.rows : aliases.rows[k].raw = raw

\* C8: every employer_canonical holds no boilerplate token (INC, LTD, LIMITED, CORP,
\* CORPORATION, THE, OF, AND) as a whole word and no character other than A-Z, 0-9
\* and whitespace, and raw employers that differ only in those get the same
\* employer_canonical and employer_id.
C8_EmployerCanonicalStripsBoilerplate ==
    (canon_pc # "staging") =>
        \A i \in DOMAIN enriched :
            /\ ~HasBoilerplateWord(enriched[i].employer_canonical)
            /\ Range(enriched[i].employer_canonical) \subseteq (UpperSet \cup DigitSet \cup Whitespace)
            /\ \A j \in DOMAIN enriched :
                  normalize_for_comparison(enriched[i].employer)
                      = normalize_for_comparison(enriched[j].employer)
                  => /\ enriched[i].employer_canonical = enriched[j].employer_canonical
                     /\ enriched[i].employer_id = enriched[j].employer_id

\* C9: a row whose raw text is exactly a key of the override table gets
\* normalize(override value) as canonical name; any other row gets normalize(raw).
C9_AliasResolution ==
    (canon_pc = "jobs") =>
        \A i \in DOMAIN enriched_2 :
            LET r == enriched_2[i] IN
            /\ r.employer_canonical =
                  IF IsAliasKey(r.employer, employer_aliases)
                  THEN normalize_string_employer(MapAlias(r.employer, employer_aliases.rows))
                  ELSE normalize_string_employer(r.employer)
            /\ r.job_canonical =
                  IF IsAliasKey(r.job_title, job_aliases)
                  THEN normalize_string_job(MapAlias(r.job_title, job_aliases.rows))
                  ELSE normalize_string_job(r.job_title)

\* C10: every canonical name is a fixed point of its normalize routine, whether it
\* came from an override value or from the raw text, so an override value and a raw
\* text that are the same text end at the same canonical name.
C10_CanonicalIsNormalForm ==
    (canon_pc = "jobs") =>
        \A i \in DOMAIN enriched_2 :
            LET r == enriched_2[i] IN
            /\ normalize_string_employer(r.employer_canonical) = r.employer_canonical
            /\ normalize_string_job(r.job_canonical) = r.job_canonical
            /\ \A j \in DOMAIN enriched_2 :
                  LET q == enriched_2[j] IN
                  /\ ( /\ IsAliasKey(r.employer, employer_aliases)
                       /\ ~IsAliasKey(q.employer, employer_aliases)
                       /\ MapAlias(r.employer, employer_aliases.rows) = q.employer )
                     => r.employer_canonical = q.employer_canonical
                  /\ ( /\ IsAliasKey(r.job_title, job_aliases)
                       /\ ~IsAliasKey(q.job_title, job_aliases)
                       /\ MapAlias(r.job_title, job_aliases.rows) = q.job_title )
                     => r.job_canonical = q.job_canonical

\* the rows of an entity table that carry the canonical name
RowsNamed(dim, col, name) == {k \in DOMAIN dim : dim[k][col] = name}

\* C11: an entity id is a function of the canonical name alone: two rows with the same
\* employer_canonical (job_canonical) carry the same employer_id (job_id), which is the
\* md5 id of that name whatever the sector, the raw text, the job family or the alias
\* files of the run, and each entity table holds exactly one row per distinct
\* canonical name of the rows.
C11_EntityIdFromCanonicalName ==
    (canon_pc = "jobs") =>
        /\ \A i \in DOMAIN enriched_2 :
              LET r == enriched_2[i] IN
              /\ r.employer_id = md5_id(r.employer_canonical)
              /\ r.job_id = md5_id(r.job_canonical)
              /\ Cardinality(RowsNamed(dim_employer, "employer_canonical", r.employer_canonical)) = 1
              /\ Cardinality(RowsNamed(dim_job, "job_canonical", r.job_canonical)) = 1
              /\ \A j \in DOMAIN enriched_2 :
                    LET q == enriched_2[j] IN
                    /\ r.employer_canonical = q.employer_canonical => r.employer_id = q.employer_id
                    /\ r.job_canonical = q.job_canonical => r.job_id = q.job_id
        /\ \A k \in DOMAIN dim_employer :
              /\ dim_employer[k].employer_id = md5_id(dim_employer[k].employer_canonical)
              /\ \E i \in DOMAIN enriched_2 :
                    enriched_2[i].employer_canonical = dim_employer[k].employer_canonical
        /\ \A k \in DOMAIN dim_job :
              /\ dim_job[k].job_id = md5_id(dim_job[k].job_canonical)
              /\ \E i \in DOMAIN enriched_2 :
                    enriched_2[i].job_canonical = dim_job[k].job_canonical

\* two rows of different sector and raw employer text meet in one employer entity and
\* one job entity
C11_Witness ==
    /\ canon_pc = "jobs"
    /\ Len(dim_employer) = 1
    /\ Len(dim_job) = 1
    /\ \E i, j \in DOMAIN enriched_2 :
          /\ enriched_2[i].sector # enriched_2[j].sector
          /\ enriched_2[i].employer # enriched_2[j].employer
          /\ enriched_2[i].employer_id = enriched_2[j].employer_id
          /\ enriched_2[i].job_id = enriched_2[j].job_id

----------------------------------------------------------------------------
(* normalize_jobs.py: infer_family on canonical titles *)

\* Words a canonical job title is made of: the keywords of infer_family as they stand
\* in a canonical (upper-case) title, a word of mixed case and a word no rule knows
TitleWords ==
    {<<"P", "R", "O", "F", "E", "S", "S", "O", "R">>,
     <<"T", "E", "A", "C", "H", "E", "R">>,
     <<"P", "R", "I", "N", "C", "I", "P", "A", "L">>,
     <<"N", "U", "R", "S", "E">>,
     <<"P", "H", "Y", "S", "I", "C", "I", "A", "N">>,
     <<"D", "O", "C", "T", "O", "R">>,
     <<"P", "O", "L", "I", "C", "E">>,
     <<"C", "O", "N", "S", "T", "A", "B", "L", "E">>,
     <<"D", "E", "T", "E", "C", "T", "I", "V", "E">>,
     <<"F", "I", "R", "E", "F", "I", "G", "H", "T", "E", "R">>,
     <<"E", "N", "G", "I", "N", "E", "E", "R">>,
     <<"D", "I", "R", "E", "C", "T", "O", "R">>,
     <<"M", "A", "N", "A", "G", "E", "R">>,
     <<"M", "a", "n", "a", "g", "e", "r">>,
     <<"C", "L", "E", "R", "K">>}

\* one more word of the canonical title (words are separated by one space)
AppendTitleWord ==
    /\ family_pc = "title"
    /\ Len(SelectSeq(canonical_title, LAMBDA c : c = " ")) + 1 < MaxWords
           \/ canonical_title = <<>>
    /\ \E w \in TitleWords :
          canonical_title' = IF canonical_title = <<>> THEN w ELSE canonical_title \o <<" ">> \o w
    /\ UNCHANGED <<family, family_pc>>
    /\ UNCHANGED <<linkVars, normVars, canonVars, metricVars, pipeVars, ingestVars, validateVars>>

\* df['job_canonical'].apply(infer_family), one title
InferFamily ==
    /\ family_pc = "title"
    /\ family' = infer_family(canonical_title)
    /\ family_pc' = "inferred"
    /\ UNCHANGED canonical_title
    /\ UNCHANGED <<linkVars, normVars, canonVars, metricVars, pipeVars, ingestVars, validateVars>>

InitFamily ==
    /\ canonical_title = <<>>
    /\ family = "Other"
    /\ family_pc = "title"
    /\ IdleLink /\ IdleNorm /\ IdleCanon /\ IdleMetrics /\ IdlePipe /\ IdleIngest /\ IdleValidate

NextFamily == AppendTitleWord \/ InferFamily

SpecFamily == InitFamily /\ [][NextFamily]_vars

\* the keyword rules in the order the claim gives them
FamilyRules ==
    <<[keywords |-> {<<"p", "r", "o", "f", "e", "s", "s", "o", "r">>}, family |-> "Academic"],
      [keywords |-> {<<"t", "e", "a", "c", "h", "e", "r">>,
                     <<"p", "r", "i", "n", "c", "i", "p", "a", "l">>}, family |-> "Education"],
      [keywords |-> {<<"n", "u", "r", "s", "e">>}, family |-> "Medical"],
      [keywords |-> {<<"p", "h", "y", "s", "i", "c", "i", "a", "n">>,
                     <<"d", "o", "c", "t", "o", "r">>}, family |-> "Medical"],
      [keywords |-> {<<"p", "o", "l", "i", "c", "e">>,
                     <<"c", "o", "n", "s", "t", "a", "b", "l", "e">>,
                     <<"d", "e", "t", "e", "c", "t", "i", "v", "e">>}, family |-> "Police"],
      [keywords |-> {<<"f", "i", "r", "e", "f", "i", "g", "h", "t", "e", "r">>}, family |-> "Fire"],
      [keywords |-> {<<"e", "n", "g", "i", "n", "e", "e", "r">>}, family |-> "Engineering"],
      [keywords |-> {<<"d", "i", "r", "e", "c", "t", "o", "r">>}, family |-> "Management"],
      [keywords |-> {<<"m", "a", "n", "a", "g", "e", "r">>}, family |-> "Management"]>>

\* the rules with a keyword inside the title, letter case ignored
MatchingRules(t) ==
    {k \in DOMAIN FamilyRules :
        \E w \in FamilyRules[k].keywords :
            \E i \in 1..Len(t) : /\ i + Len(w) - 1 <= Len(t)
                                  /\ \A d \in 1..Len(w) : t[i + d - 1] \in {w[d], UpperChar(w[d])}}

\* C12: infer_family returns the family of the first rule, in the order professor,
\* teacher/principal, nurse, physician/doctor, police/constable/detective,
\* firefighter, engineer, director, manager, with a keyword inside the title whatever
\* the letter case, and Other when no rule has one; a title with POLICE and MANAGER
\* (and no keyword of an earlier rule) is Police.
C12_FamilyOfFirstMatchingRule ==
    (family_pc = "inferred") =>
        LET hits == MatchingRules(canonical_title) IN
        /\ hits = {} => family = "Other"
        /\ hits # {} => family = FamilyRules[CHOOSE k \in hits : \A m \in hits : k <= m].family
        /\ ({5, 9} \subseteq hits /\ \A k \in hits : k >= 5) => family = "Police"

\* POLICE MANAGER was classified, and so was a title of mixed case
C12_Witness ==
    /\ family_pc = "inferred"
    /\ canonical_title = <<"P", "O", "L", "I", "C", "E", " ", "M", "a", "n", "a", "g", "e", "r">>
    /\ family = "Police"

----------------------------------------------------------------------------
(* Python floats of the metrics: a fraction n/d in lowest terms, inf, -inf or nan *)

RECURSIVE Gcd(_, _)
Gcd(a, b) == IF b = 0 THEN a ELSE Gcd(b, a % b)

Abs(n) == IF n < 0 THEN -n ELSE n

\* the float n/d, d > 0
Float(n, d) == LET g == Gcd(Abs(n), d) IN [kind |-> "num", n |-> n \div g, d |-> d \div g]
FloatInf == [kind |-> "inf", n |-> 1, d |-> 0]
FloatNegInf == [kind |-> "-inf", n |-> -1, d |-> 0]
FloatNaN == [kind |-> "nan", n |-> 0, d |-> 0]

\* pd.notna(x), Series.notna()
notna(x) == x.kind # "nan"

\* a / b on floats holding integers: x / 0 is inf or -inf, 0 / 0 is nan, nan stays nan
TrueDiv(a, b) ==
    IF a.kind = "nan" \/ b.kind = "nan" THEN FloatNaN
    ELSE IF b.n # 0 THEN (IF b.n > 0 THEN Float(a.n, b.n) ELSE Float(-a.n, -b.n))
    ELSE IF a.n = 0 THEN FloatNaN
    ELSE IF a.n > 0 THEN FloatInf ELSE FloatNegInf

\* a - b on floats holding integers
FloatSub(a, b) == IF a.kind = "nan" \/ b.kind = "nan" THEN FloatNaN ELSE Float(a.n - b.n, 1)

\* a < b on floats that are not nan
KindRank(x) == IF x.kind = "-inf" THEN 0 ELSE IF x.kind = "num" THEN 1 ELSE 2
FloatLess(a, b) ==
    IF a.kind = "num" /\ b.kind = "num" THEN a.n * b.d < b.n * a.d
    ELSE KindRank(a) < KindRank(b)

\* (a + b) / 2 on floats that are not nan
MeanOfTwo(a, b) ==
    IF a.kind = "num" /\ b.kind = "num" THEN Float(a.n * b.d + b.n * a.d, 2 * a.d * b.d)
    ELSE IF a.kind = "num" THEN b
    ELSE IF b.kind = "num" THEN a
    ELSE IF a.kind = b.kind THEN a ELSE FloatNaN

\* the values in ascending order
SortFloats(vs) ==
    LET pos(i) == Cardinality({j \in DOMAIN vs : FloatLess(vs[j], vs[i])})
                  + Cardinality({j \in DOMAIN vs : j < i /\ ~FloatLess(vs[j], vs[i])
                                                        /\ ~FloatLess(vs[i], vs[j])}) + 1
    IN  [k \in DOMAIN vs |-> vs[CHOOSE i \in DOMAIN vs : pos(i) = k]]

\* Series.median(): nan values are skipped, nan when nothing is left
Median(vs) ==
    LET xs == SortFloats(SelectSeq(vs, notna))
        n == Len(xs)
    IN  IF n = 0 THEN FloatNaN
        ELSE IF n % 2 = 1 THEN xs[(n + 1) \div 2]
        ELSE MeanOfTwo(xs[n \div 2], xs[n \div 2 + 1])

\* Series.quantile(k / 100): linear interpolation between the two nearest ranks
Quantile(vs, k) ==
    LET xs == SortFloats(vs)
        h == k * (Len(xs) - 1)
        lo == h \div 100 + 1
        fr == h % 100
    IN  IF fr = 0 THEN xs[lo]
        ELSE Float(100 * xs[lo].n + fr * (xs[lo + 1].n - xs[lo].n), 100)

RECURSIVE SumOf(_)
SumOf(ns) == IF ns = <<>> THEN 0 ELSE Head(ns) + SumOf(Tail(ns))

----------------------------------------------------------------------------
(* generate_analytics_complex.py: generate_employer_metrics *)

PersonIds == {<<"1">>, <<"2">>}
FactYears == 1..MaxFactYear
FactComps == {0, 100, 200}

\* the columns of fact_comp the employer metrics read
FactRows ==
    [person_id : PersonIds, employer_id : EmployerIds, year : FactYears, total_comp : FactComps]

\* sorted(S)
SortedSeq(S) ==
    [k \in 1..Cardinality(S) |-> CHOOSE x \in S : Cardinality({y \in S : y < x}) = k - 1]

\* df['year'].unique(): the years in order of first appearance
RECURSIVE unique_years(_)
unique_years(facts) ==
    IF facts = <<>> THEN <<>>
    ELSE LET front == unique_years(SubSeq(facts, 1, Len(facts) - 1))
             y == facts[Len(facts)].year
         IN  IF \E k \in DOMAIN front : front[k] = y THEN front ELSE Append(front, y)

\* years without sorted(): the years in order of first appearance
years_Unsorted(facts) == unique_years(facts)

\* years = sorted(df['year'].unique())
years(facts) == SortedSeq(Range(unique_years(facts)))

\* pay_stats: the aggregates of one (employer_id, year) group
pay_stats(facts, emp_id, year) ==
    LET group == SelectSeq(facts, LAMBDA r : r.employer_id = emp_id /\ r.year = year)
        comps == [k \in DOMAIN group |-> Float(group[k].total_comp, 1)]
    IN  [headcount |-> Len(group),
         mean_pay |-> Float(SumOf([k \in DOMAIN group |-> group[k].total_comp]), Len(group)),
         p50 |-> Quantile(comps, 50),
         p75 |-> Quantile(comps, 75),
         p90 |-> Quantile(comps, 90),
         p99 |-> Quantile(comps, 99)]

\* the merge keys ignoring employer_id
merge_on_PersonOnly(c, p) == c.person_id = p.person_id

\* on=['employer_id', 'person_id']
merge_on(c, p) == c.employer_id = p.employer_id /\ c.person_id = p.person_id

\* prev_df: the rows of the years before years[idx], latest year first, then the first
\* row of every (person_id, employer_id). sort_values('year') is not a stable sort:
\* rows of one year stand in the order it leaves them, which is order.
prev_df(facts, ys, idx, order) ==
    LET prev_years == {ys[k] : k \in 1..(idx - 1)}
        idxs == {i \in DOMAIN facts : facts[i].year \in prev_years}
        before(i, j) == \/ facts[i].year > facts[j].year
                        \/ facts[i].year = facts[j].year /\ order[i] < order[j]
        sorted == [k \in 1..Cardinality(idxs) |->
                      CHOOSE i \in idxs : Cardinality({j \in idxs : before(j, i)}) = k - 1]
        first(i) == ~\E j \in idxs : /\ before(j, i)
                                      /\ facts[j].person_id = facts[i].person_id
                                      /\ facts[j].employer_id = facts[i].employer_id
        kept == SelectSeq(sorted, first)
    IN  [k \in DOMAIN kept |-> facts[kept[k]]]

\* one row of merged, with its stayed and growth columns
MergedRow(c, total_comp_prev, year_prev) ==
    [person_id |-> c.person_id,
     employer_id |-> c.employer_id,
     year |-> c.year,
     total_comp |-> c.total_comp,
     total_comp_prev |-> total_comp_prev,
     year_prev |-> year_prev,
     stayed |-> notna(total_comp_prev),
     growth |-> TrueDiv(FloatSub(Float(c.total_comp, 1), total_comp_prev), total_comp_prev)]

\* curr_df.merge(prev_df[...], on=[...], suffixes=('', '_prev'), how='left')
RECURSIVE merge_prev(_, _)
merge_prev(curr_df, prev) ==
    IF curr_df = <<>> THEN <<>>
    ELSE LET c == Head(curr_df)
             hits == SelectSeq(prev, LAMBDA p : merge_on(c, p))
         IN  (IF hits = <<>> THEN <<MergedRow(c, FloatNaN, FloatNaN)>>
              ELSE [k \in DOMAIN hits |->
                       MergedRow(c, Float(hits[k].total_comp, 1), Float(hits[k].year, 1))])
             \o merge_prev(Tail(curr_df), prev)

\* merged of the loop pass for years[idx], idx > 0
merged(facts, ys, idx, order) ==
    merge_prev(SelectSeq(facts, LAMBDA r : r.year = ys[idx]), prev_df(facts, ys, idx, order))

\* growth_median without the 0.0 default
growth_median_NoDefault(median_growth) == median_growth

\* float(median_growth) if pd.notna(median_growth) else 0.0
growth_median(median_growth) == IF notna(median_growth) THEN median_growth ELSE Float(0, 1)

\* one metric record
MetricRecord(stats, emp_id, year, stayed_count, retention_rate, growth) ==
    [employer_id |-> emp_id,
     year |-> year,
     headcount |-> stats.headcount,
     mean_pay |-> stats.mean_pay,
     p50 |-> stats.p50,
     p75 |-> stats.p75,
     p90 |-> stats.p90,
     p99 |-> stats.p99,
     stayed_count |-> stayed_count,
     retention_rate |-> retention_rate,
     growth_median |-> growth]

\* the records one pass of the loop appends to final_records; m is its merged frame
year_records(facts, ys, idx, m) ==
    LET year == ys[idx] IN
    IF idx > 1
    THEN LET agg == SortedSeq({m[k].employer_id : k \in DOMAIN m})
         IN  [e \in DOMAIN agg |->
                 LET rows == SelectSeq(m, LAMBDA r : r.employer_id = agg[e])
                     stats == pay_stats(facts, agg[e], year)
                     stayed_count == Len(SelectSeq(rows, LAMBDA r : r.stayed))
                 IN  MetricRecord(stats, agg[e], year, stayed_count,
                                  IF stats.headcount > 0
                                  THEN Float(stayed_count, stats.headcount) ELSE Float(0, 1),
                                  growth_median(Median([k \in DOMAIN rows |-> rows[k].growth])))]
    ELSE LET curr_stats == SortedSeq({facts[i].employer_id : i \in {j \in DOMAIN facts : facts[j].year = year}})
         IN  [e \in DOMAIN curr_stats |->
                 MetricRecord(pay_stats(facts, curr_stats[e], year), curr_stats[e], year,
                              0, Float(0, 1), Float(0, 1))]

\* final_records after the passes 1..idx
RECURSIVE final_records(_, _, _, _)
final_records(facts, ys, frames, idx) ==
    IF idx = 0 THEN <<>>
    ELSE final_records(facts, ys, frames, idx - 1) \o year_records(facts, ys, idx, frames[idx])

\* grouped_output: the records of every employer_id, in the order the ids first appear
RECURSIVE grouped_keys(_)
grouped_keys(recs) ==
    IF recs = <<>> THEN <<>>
    ELSE LET front == grouped_keys(SubSeq(recs, 1, Len(recs) - 1))
             eid == recs[Len(recs)].employer_id
         IN  IF \E k \in DOMAIN front : front[k] = eid THEN front ELSE Append(front, eid)

grouped_output(recs) ==
    LET keys == grouped_keys(recs)
    IN  [k \in DOMAIN keys |->
            [employer_id |-> keys[k],
             metrics |-> SelectSeq(recs, LAMBDA r : r.employer_id = keys[k])]]

\* the orders an unstable sort can leave rows of one year in; they only show when two
\* different rows of one (person_id, employer_id) share a year
SortOrders(facts) ==
    IF \E i, j \in DOMAIN facts : /\ facts[i] # facts[j]
                               /\ facts[i].year = facts[j].year
                               /\ facts[i].person_id = facts[j].person_id
                               /\ facts[i].employer_id = facts[j].employer_id
    THEN {p \in [DOMAIN facts -> DOMAIN facts] : \A a, b \in DOMAIN facts : p[a] = p[b] => a = b}
    ELSE {[i \in DOMAIN facts |-> i]}

\* link_persons.py writes one more row to fact_comp.parquet
LoadFact ==
    /\ metrics_pc = "facts"
    /\ Len(fact_comp) < MaxFacts
    /\ \E r \in FactRows : fact_comp' = Append(fact_comp, r)
    /\ UNCHANGED <<merged_frames, employer_metrics, metrics_pc>>
    /\ UNCHANGED <<linkVars, normVars, canonVars, familyVars, pipeVars, ingestVars, validateVars>>

\* generate_employer_metrics(df)
GenerateEmployerMetrics ==
    /\ metrics_pc = "facts"
    /\ LET ys == years(fact_comp) IN
       \E order \in [{idx \in DOMAIN ys : idx > 1} -> SortOrders(fact_comp)] :
          LET frames == [idx \in DOMAIN ys |->
                            IF idx > 1 THEN merged(fact_comp, ys, idx, order[idx]) ELSE <<>>]
          IN  /\ merged_frames' = frames
              /\ employer_metrics' = grouped_output(final_records(fact_comp, ys, frames, Len(ys)))
    /\ metrics_pc' = "done"
    /\ UNCHANGED fact_comp
    /\ UNCHANGED <<linkVars, normVars, canonVars, familyVars, pipeVars, ingestVars, validateVars>>

InitMetrics ==
    /\ fact_comp = <<>>
    /\ merged_frames = <<>>
    /\ employer_metrics = <<>>
    /\ metrics_pc = "facts"
    /\ IdleLink /\ IdleNorm /\ IdleCanon /\ IdleFamily /\ IdlePipe /\ IdleIngest /\ IdleValidate

NextMetrics == LoadFact \/ GenerateEmployerMetrics

SpecMetrics == InitMetrics /\ [][NextMetrics]_vars

----------------------------------------------------------------------------
(* Properties of the employer metrics *)

MetricsDone == metrics_pc = "done"

\* every emitted metric
AllMetrics == UNION {Range(employer_metrics[g].metrics) : g \in DOMAIN employer_metrics}

\* the fact rows of an employer in a year, and in the years before it
RecordsOf(emp_id, year) ==
    {i \in DOMAIN fact_comp : fact_comp[i].employer_id = emp_id /\ fact_comp[i].year = year}
EarlierRecordsOf(emp_id, year) ==
    {i \in DOMAIN fact_comp : fact_comp[i].employer_id = emp_id /\ fact_comp[i].year < year}

FirstDatasetYear == CHOOSE y \in {fact_comp[i].year : i \in DOMAIN fact_comp} :
                        \A i \in DOMAIN fact_comp : y <= fact_comp[i].year

\* C13: every employer-year with no record of that employer in an earlier year (the
\* earliest year of the dataset, or the first year of the employer's own history) has
\* a metric, and it carries retention_rate = 0 and growth_median = 0.
C13_FirstYearOfHistoryIsZero ==
    MetricsDone =>
        \A i \in DOMAIN fact_comp :
            LET e == fact_comp[i].employer_id
                y == fact_comp[i].year
            IN  EarlierRecordsOf(e, y) = {} =>
                    /\ \E r \in AllMetrics : r.employer_id = e /\ r.year = y
                    /\ \A r \in AllMetrics :
                          (r.employer_id = e /\ r.year = y) =>
                              /\ {"retention_rate", "growth_median"} \subseteq DOMAIN r
                              /\ r.retention_rate = Float(0, 1)
                              /\ r.growth_median = Float(0, 1)

\* an employer whose history starts after the first year of the dataset got its metric
C13_Witness ==
    /\ MetricsDone
    /\ \E r \in AllMetrics :
          /\ r.year > FirstDatasetYear
          /\ EarlierRecordsOf(r.employer_id, r.year) = {}
          /\ r.retention_rate = Float(0, 1)
          /\ r.growth_median = Float(0, 1)
          /\ \E q \in AllMetrics : q.year = r.year /\ q.stayed_count > 0

\* C14: there is exactly one metric per employer and year with at least one fact
\* record and none for any other employer-year, every employer has one list whose
\* years ascend strictly, and every metric carries retention_rate and growth_median.
C14_OneMetricPerEmployerYear ==
    MetricsDone =>
        /\ \A e \in EmployerIds, y \in FactYears :
              Cardinality({<<g, k>> \in (DOMAIN employer_metrics) \X (1..MaxFacts) :
                              /\ k \in DOMAIN employer_metrics[g].metrics
                              /\ employer_metrics[g].metrics[k].employer_id = e
                              /\ employer_metrics[g].metrics[k].year = y})
                  = IF RecordsOf(e, y) # {} THEN 1 ELSE 0
        /\ \A g, h \in DOMAIN employer_metrics :
              employer_metrics[g].employer_id = employer_metrics[h].employer_id => g = h
        /\ \A g \in DOMAIN employer_metrics :
              LET ms == employer_metrics[g].metrics IN
              /\ \A k \in DOMAIN ms :
                    /\ ms[k].employer_id = employer_metrics[g].employer_id
                    /\ {"retention_rate", "growth_median"} \subseteq DOMAIN ms[k]
              /\ \A k \in 1..(Len(ms) - 1) : ms[k].year < ms[k + 1].year

\* an employer with records in the first and the last year only, while another employer
\* has records in the year between, has exactly those two metrics
C14_Witness ==
    /\ MetricsDone
    /\ \E g \in DOMAIN employer_metrics :
          LET ms == employer_metrics[g].metrics IN
          /\ Len(ms) = 2
          /\ ms[1].year + 1 < ms[2].year
          /\ \E r \in AllMetrics : ms[1].year < r.year /\ r.year < ms[2].year
    /\ \E i \in DOMAIN fact_comp : \E j \in DOMAIN fact_comp :
          i < j /\ fact_comp[i].year > fact_comp[j].year

\* the current records of an employer-year with a record of the same person_id and
\* employer_id in a strictly earlier year
StayedRecords(emp_id, year) ==
    {i \in RecordsOf(emp_id, year) :
        \E j \in DOMAIN fact_comp :
            /\ fact_comp[j].person_id = fact_comp[i].person_id
            /\ fact_comp[j].employer_id = emp_id
            /\ fact_comp[j].year < year}

LatestPriorRows(person_id, emp_id, year) ==
    LET prior == {j \in DOMAIN fact_comp : /\ fact_comp[j].person_id = person_id
                                           /\ fact_comp[j].employer_id = emp_id
                                           /\ fact_comp[j].year < year}
    IN  {j \in prior : \A k \in prior : fact_comp[k].year <= fact_comp[j].year}

\* C16: the prior record a current record is matched to is the one of its
\* (person_id, employer_id) with the greatest year below the current year, and of
\* several rows in that year the last one in input order.
C16_LatestPriorLastOccurrenceWins ==
    MetricsDone =>
        \A idx \in DOMAIN merged_frames :
            \A k \in DOMAIN merged_frames[idx] :
                LET m == merged_frames[idx][k]
                    latest == LatestPriorRows(m.person_id, m.employer_id, m.year)
                IN  m.stayed =>
                        LET last == CHOOSE j \in latest : \A i \in latest : i <= j IN
                        /\ m.year_prev = Float(fact_comp[last].year, 1)
                        /\ m.total_comp_prev = Float(fact_comp[last].total_comp, 1)

\* the matched pairs of an employer-year: the rows of its merged frame that stayed
MatchedPairs(emp_id, year) ==
    LET ys == years(fact_comp)
        frame == merged_frames[CHOOSE idx \in DOMAIN ys : ys[idx] = year]
    IN  SelectSeq(frame, LAMBDA m : m.employer_id = emp_id /\ m.stayed)

\* C17: growth_median is always a finite number: 0 when no pair matched, and the
\* median of (current - prior) / prior over the matched pairs when every matched prior
\* total_comp is above 0.
C17_GrowthMedianIsFiniteMedian ==
    MetricsDone =>
        \A r \in AllMetrics :
            /\ r.growth_median.kind = "num"
            /\ r.year > FirstDatasetYear =>
                  LET pairs == MatchedPairs(r.employer_id, r.year) IN
                  /\ pairs = <<>> => r.growth_median = Float(0, 1)
                  /\ (pairs # <<>> /\ \A k \in DOMAIN pairs : pairs[k].total_comp_prev.n > 0) =>
                        r.growth_median =
                            Median([k \in DOMAIN pairs |->
                                       Float(pairs[k].total_comp - pairs[k].total_comp_prev.n,
                                             pairs[k].total_comp_prev.n)])

----------------------------------------------------------------------------
(* run_pipeline.py *)

PIPELINE_STAGES ==
    <<[name |-> "ingest", script |-> "ingest.py"],
      [name |-> "normalize_employers", script |-> "normalize_employers.py"],
      [name |-> "normalize_jobs", script |-> "normalize_jobs.py"],
      [name |-> "link_persons", script |-> "link_persons.py"],
      [name |-> "validate", script |-> "validate_data.py"],
      [name |-> "analytics_basic", script |-> "generate_analytics_basic.py"],
      [name |-> "analytics_complex", script |-> "generate_analytics_complex.py"],
      [name |-> "analytics_sector", script |-> "generate_analytics_sector.py"],
      [name |-> "search_index", script |-> "generate_search_index.py"]>>

StageNames == {PIPELINE_STAGES[k].name : k \in DOMAIN PIPELINE_STAGES}

\* the files a stage script writes, in the order it writes them
StageOutputs ==
    [n \in StageNames |->
        CASE n = "ingest" -> <<"stg_rows.parquet">>
          [] n = "normalize_employers" -> <<"dim_employer.parquet", "stg_rows_enriched.parquet">>
          [] n = "normalize_jobs" -> <<"dim_job.parquet", "stg_rows_enriched_2.parquet">>
          [] n = "link_persons" -> <<"fact_comp.parquet">>
          [] n = "validate" -> <<"data_quality_report.json">>
          [] n = "analytics_basic" -> <<"year_summary.json", "top_earners.json">>
          [] n = "analytics_complex" -> <<"employer_metrics.json", "job_metrics.json">>
          [] n = "analytics_sector" -> <<"sector_metrics.json">>
          [] n = "search_index" -> <<"search_index.json">>]

\* the stages that return without writing when they find no input: ingest with no
\* usable CSV file, validate_data without fact_comp.parquet
QuietStages == {"ingest", "validate"}

\* the command lines: --stage and --from name a stage, nothing ("") or an unknown stage
StageArgs == StageNames \cup {"", "bogus"}
CommandLines ==
    [validate_only : BOOLEAN, stage : StageArgs, from_stage : StageArgs,
     skip_validation : BOOLEAN]

\* main, lines 87-105: the stages selected by the command line
select_stages(a) ==
    LET chosen ==
            IF a.validate_only
            THEN SelectSeq(PIPELINE_STAGES, LAMBDA s : s.name = "validate")
            ELSE IF a.stage # ""
            THEN SelectSeq(PIPELINE_STAGES, LAMBDA s : s.name = a.stage)
            ELSE IF a.from_stage # "" /\ a.from_stage \in StageNames
            THEN LET start_idx == CHOOSE i \in DOMAIN PIPELINE_STAGES :
                                      PIPELINE_STAGES[i].name = a.from_stage
                 IN  SubSeq(PIPELINE_STAGES, start_idx, Len(PIPELINE_STAGES))
            ELSE PIPELINE_STAGES
    IN  IF a.skip_validation THEN SelectSeq(chosen, LAMBDA s : s.name # "validate") ELSE chosen

\* main, lines 93-101: --stage or --from names no stage
unknown_stage(a) ==
    /\ ~a.validate_only
    /\ \/ a.stage # "" /\ a.stage \notin StageNames
       \/ a.stage = "" /\ a.from_stage # "" /\ a.from_stage \notin StageNames

\* the loop of main that goes on after a failed stage
after_stage_NoBreak(success) == "loop"

\* main, lines 115-118: the loop goes on after a success and breaks after a failure
after_stage(success) == IF success THEN "loop" ELSE "summary"

\* main, lines 79-105
ParseArgs ==
    /\ pipe_pc = "args"
    /\ IF unknown_stage(args)
       THEN /\ exit_code' = 1
            /\ pipe_pc' = "exited"
            /\ UNCHANGED stages_to_run
       ELSE /\ stages_to_run' = select_stages(args)
            /\ pipe_pc' = "loop"
            /\ UNCHANGED exit_code
    /\ UNCHANGED <<args, missing_scripts, stage_idx, started, stage_written, written,
                   failed_stages>>
    /\ UNCHANGED <<linkVars, normVars, canonVars, familyVars, metricVars, ingestVars, validateVars>>

\* run_stage, lines 38-42: the script is not there, the stage counts as a success
SkipMissingScript ==
    /\ pipe_pc = "loop"
    /\ stage_idx <= Len(stages_to_run)
    /\ stages_to_run[stage_idx].script \in missing_scripts
    /\ stage_idx' = stage_idx + 1
    /\ pipe_pc' = after_stage(TRUE)
    /\ UNCHANGED <<args, missing_scripts, stages_to_run, started, stage_written, written,
                   failed_stages, exit_code>>
    /\ UNCHANGED <<linkVars, normVars, canonVars, familyVars, metricVars, ingestVars, validateVars>>

\* run_stage, lines 49-57: subprocess.run launches the script
StartStage ==
    /\ pipe_pc = "loop"
    /\ stage_idx <= Len(stages_to_run)
    /\ stages_to_run[stage_idx].script \notin missing_scripts
    /\ started' = Append(started, stages_to_run[stage_idx].name)
    /\ stage_written' = 0
    /\ pipe_pc' = "running"
    /\ UNCHANGED <<args, missing_scripts, stages_to_run, stage_idx, written, failed_stages,
                   exit_code>>
    /\ UNCHANGED <<linkVars, normVars, canonVars, familyVars, metricVars, ingestVars, validateVars>>

\* the running script writes its next output file (to_parquet, json.dump)
WriteArtifact ==
    /\ pipe_pc = "running"
    /\ LET name == stages_to_run[stage_idx].name IN
       /\ stage_written < Len(StageOutputs[name])
       /\ written' = Append(written, StageOutputs[name][stage_written + 1])
    /\ stage_written' = stage_written + 1
    /\ UNCHANGED <<args, missing_scripts, stages_to_run, stage_idx, started, failed_stages,
                   exit_code, pipe_pc>>
    /\ UNCHANGED <<linkVars, normVars, canonVars, familyVars, metricVars, ingestVars, validateVars>>

\* run_stage, lines 61-63: the script ran to its end, returncode 0
StageReturnsZero ==
    /\ pipe_pc = "running"
    /\ LET name == stages_to_run[stage_idx].name IN
       \/ stage_written = Len(StageOutputs[name])
       \/ stage_written = 0 /\ name \in QuietStages
    /\ stage_idx' = stage_idx + 1
    /\ pipe_pc' = after_stage(TRUE)
    /\ UNCHANGED <<args, missing_scripts, stages_to_run, started, stage_written, written,
                   failed_stages, exit_code>>
    /\ UNCHANGED <<linkVars, normVars, canonVars, familyVars, metricVars, ingestVars, validateVars>>

\* run_stage, lines 64-66: the script stopped on an error at any point, returncode # 0;
\* main, lines 115-118
StageReturnsNonZero ==
    /\ pipe_pc = "running"
    /\ failed_stages' = Append(failed_stages, stages_to_run[stage_idx].name)
    /\ stage_idx' = stage_idx + 1
    /\ pipe_pc' = after_stage(FALSE)
    /\ UNCHANGED <<args, missing_scripts, stages_to_run, started, stage_written, written,
                   exit_code>>
    /\ UNCHANGED <<linkVars, normVars, canonVars, familyVars, metricVars, ingestVars, validateVars>>

\* run_stage, lines 68-71: subprocess.run raised before the script did anything;
\* main, lines 115-118
SubprocessRaises ==
    /\ pipe_pc = "running"
    /\ stage_written = 0
    /\ failed_stages' = Append(failed_stages, stages_to_run[stage_idx].name)
    /\ stage_idx' = stage_idx + 1
    /\ pipe_pc' = after_stage(FALSE)
    /\ UNCHANGED <<args, missing_scripts, stages_to_run, started, stage_written, written,
                   exit_code>>
    /\ UNCHANGED <<linkVars, normVars, canonVars, familyVars, metricVars, ingestVars, validateVars>>

\* main, lines 120-132: the summary and sys.exit
Summary ==
    /\ \/ pipe_pc = "summary"
       \/ pipe_pc = "loop" /\ stage_idx > Len(stages_to_run)
    /\ exit_code' = IF failed_stages # <<>> THEN 1 ELSE 0
    /\ pipe_pc' = "exited"
    /\ UNCHANGED <<args, missing_scripts, stages_to_run, stage_idx, started, stage_written,
                   written, failed_stages>>
    /\ UNCHANGED <<linkVars, normVars, canonVars, familyVars, metricVars, ingestVars, validateVars>>

InitPipe ==
    /\ args \in CommandLines
    /\ missing_scripts \in {m \in SUBSET {PIPELINE_STAGES[k].script : k \in DOMAIN PIPELINE_STAGES} :
                                Cardinality(m) <= MaxMissing}
    /\ stages_to_run = <<>>
    /\ stage_idx = 1
    /\ started = <<>>
    /\ stage_written = 0
    /\ written = <<>>
    /\ failed_stages = <<>>
    /\ exit_code = -1
    /\ pipe_pc = "args"
    /\ IdleLink /\ IdleNorm /\ IdleCanon /\ IdleFamily /\ IdleMetrics /\ IdleIngest /\ IdleValidate

NextPipe ==
    \/ ParseArgs
    \/ SkipMissingScript
    \/ StartStage
    \/ WriteArtifact
    \/ StageReturnsZero
    \/ StageReturnsNonZero
    \/ SubprocessRaises
    \/ Summary

SpecPipe == InitPipe /\ [][NextPipe]_vars

----------------------------------------------------------------------------
(* Properties of the pipeline run *)

StageIndex(n) == CHOOSE k \in DOMAIN PIPELINE_STAGES : PIPELINE_STAGES[k].name = n

\* C18: stages are started one at a time in the order of PIPELINE_STAGES; once a stage
\* has failed (non-zero exit code or an exception) it is the last stage ever started,
\* the loop is left, and the run exits with a non-zero status; a run exits 0 only when
\* no stage failed. This holds for every command line (full run, --stage, --from,
\* --validate-only, --skip-validation).
C18_FailedStageAbortsRun ==
    /\ \A i \in 1..(Len(started) - 1) : StageIndex(started[i]) < StageIndex(started[i + 1])
    /\ pipe_pc = "running" =>
          /\ started # <<>>
          /\ started[Len(started)] = stages_to_run[stage_idx].name
    /\ failed_stages # <<>> =>
          /\ Len(failed_stages) = 1
          /\ failed_stages[1] = started[Len(started)]
          /\ pipe_pc \in {"summary", "exited"}
    /\ pipe_pc = "exited" =>
          /\ exit_code \in {0, 1}
          /\ failed_stages # <<>> => exit_code # 0
          /\ exit_code = 0 => failed_stages = <<>>

\* a run --from normalize_jobs --skip-validation whose second stage failed has exited
\* with status 1 and five selected stages never started
C18_Witness ==
    /\ pipe_pc = "exited"
    /\ exit_code = 1
    /\ args.from_stage = "normalize_jobs"
    /\ args.skip_validation
    /\ started = <<"normalize_jobs", "link_persons">>
    /\ failed_stages = <<"link_persons">>
    /\ Len(stages_to_run) = 6

\* the output files of a stage written during this run
WrittenBy(n) == Range(written) \cap Range(StageOutputs[n])

\* C19: a failed stage has written none of its output files or all of them.
C19_NoPartialOutputOfFailedStage ==
    \A k \in DOMAIN failed_stages :
        LET n == failed_stages[k] IN
        WrittenBy(n) = {} \/ WrittenBy(n) = Range(StageOutputs[n])

----------------------------------------------------------------------------
(* ingest.py *)

\* COLUMN_MAP: header, stripped and in lower case -> standard column
COLUMN_MAP ==
    {<<<<"s", "e", "c", "t", "o", "r">>,
       <<"s", "e", "c", "t", "o", "r">>>>,
     <<<<"l", "a", "s", "t", " ", "n", "a", "m", "e">>,
       <<"l", "a", "s", "t", "_", "n", "a", "m", "e">>>>,
     <<<<"s", "u", "r", "n", "a", "m", "e">>,
       <<"l", "a", "s", "t", "_", "n", "a", "m", "e">>>>,
     <<<<"l", "a", "s", "t", "_", "n", "a", "m", "e">>,
       <<"l", "a", "s", "t", "_", "n", "a", "m", "e">>>>,
     <<<<"f", "i", "r", "s", "t", " ", "n", "a", "m", "e">>,
       <<"f", "i", "r", "s", "t", "_", "n", "a", "m", "e">>>>,
     <<<<"f", "i", "r", "s", "t", "_", "n", "a", "m", "e">>,
       <<"f", "i", "r", "s", "t", "_", "n", "a", "m", "e">>>>,
     <<<<"s", "a", "l", "a", "r", "y", " ", "p", "a", "i", "d">>,
       <<"s", "a", "l", "a", "r", "y">>>>,
     <<<<"s", "a", "l", "a", "r", "y">>,
       <<"s", "a", "l", "a", "r", "y">>>>,
     <<<<"t", "a", "x", "a", "b", "l", "e", " ", "b", "e", "n", "e", "f", "i", "t", "s">>,
       <<"b", "e", "n", "e", "f", "i", "t", "s">>>>,
     <<<<"b", "e", "n", "e", "f", "i", "t", "s">>,
       <<"b", "e", "n", "e", "f", "i", "t", "s">>>>,
     <<<<"e", "m", "p", "l", "o", "y", "e", "r">>,
       <<"e", "m", "p", "l", "o", "y", "e", "r">>>>,
     <<<<"j", "o", "b", " ", "t", "i", "t", "l", "e">>,
       <<"j", "o", "b", "_", "t", "i", "t", "l", "e">>>>,
     <<<<"p", "o", "s", "i", "t", "i", "o", "n">>,
       <<"j", "o", "b", "_", "t", "i", "t", "l", "e">>>>,
     <<<<"j", "o", "b", "_", "t", "i", "t", "l", "e">>,
       <<"j", "o", "b", "_", "t", "i", "t", "l", "e">>>>,
     <<<<"j", "o", "b", "t", "i", "t", "l", "e">>,
       <<"j", "o", "b", "_", "t", "i", "t", "l", "e">>>>,
     <<<<"y", "e", "a", "r">>,
       <<"y", "e", "a", "r">>>>,
     <<<<"c", "a", "l", "e", "n", "d", "a", "r", " ", "y", "e", "a", "r">>,
       <<"y", "e", "a", "r">>>>}

\* required = ['sector', 'last_name', 'first_name', 'salary', 'benefits', 'employer', 'job_title']
required ==
    <<<<"s", "e", "c", "t", "o", "r">>,
      <<"l", "a", "s", "t", "_", "n", "a", "m", "e">>,
      <<"f", "i", "r", "s", "t", "_", "n", "a", "m", "e">>,
      <<"s", "a", "l", "a", "r", "y">>,
      <<"b", "e", "n", "e", "f", "i", "t", "s">>,
      <<"e", "m", "p", "l", "o", "y", "e", "r">>,
      <<"j", "o", "b", "_", "t", "i", "t", "l", "e">>>>

\* Header rows of the CSV files the model reads:
\*   1. every column, the spellings of the published files
\*   2. every column, other spellings, letter case and padding
\*   3. no "Sector" column
\*   4. no "Last Name" column
\*   5. no "First Name" column
\*   6. no "Salary Paid" column
\*   7. no "Taxable Benefits" column
\*   8. no "Employer" column
\*   9. "Title" (no key of COLUMN_MAP) instead of "Job Title"
HeaderRows ==
    {<<<<"S", "e", "c", "t", "o", "r">>,
       <<"L", "a", "s", "t", " ", "N", "a", "m", "e">>,
       <<"F", "i", "r", "s", "t", " ", "N", "a", "m", "e">>,
       <<"S", "a", "l", "a", "r", "y", " ", "P", "a", "i", "d">>,
       <<"T", "a", "x", "a", "b", "l", "e", " ", "B", "e", "n", "e", "f", "i", "t", "s">>,
       <<"E", "m", "p", "l", "o", "y", "e", "r">>,
       <<"J", "o", "b", " ", "T", "i", "t", "l", "e">>,
       <<"C", "a", "l", "e", "n", "d", "a", "r", " ", "Y", "e", "a", "r">>>>,
     <<<<" ", "s", "e", "c", "t", "o", "r", " ">>,
       <<"S", "u", "r", "n", "a", "m", "e">>,
       <<"f", "i", "r", "s", "t", "_", "n", "a", "m", "e">>,
       <<"S", "a", "l", "a", "r", "y">>,
       <<"B", "e", "n", "e", "f", "i", "t", "s">>,
       <<"E", "M", "P", "L", "O", "Y", "E", "R">>,
       <<"P", "o", "s", "i", "t", "i", "o", "n">>>>,
     <<<<"L", "a", "s", "t", " ", "N", "a", "m", "e">>,
       <<"F", "i", "r", "s", "t", " ", "N", "a", "m", "e">>,
       <<"S", "a", "l", "a", "r", "y", " ", "P", "a", "i", "d">>,
       <<"T", "a", "x", "a", "b", "l", "e", " ", "B", "e", "n", "e", "f", "i", "t", "s">>,
       <<"E", "m", "p", "l", "o", "y", "e", "r">>,
       <<"J", "o", "b", " ", "T", "i", "t", "l", "e">>,
       <<"C", "a", "l", "e", "n", "d", "a", "r", " ", "Y", "e", "a", "r">>>>,
     <<<<"S", "e", "c", "t", "o", "r">>,
       <<"F", "i", "r", "s", "t", " ", "N", "a", "m", "e">>,
       <<"S", "a", "l", "a", "r", "y", " ", "P", "a", "i", "d">>,
       <<"T", "a", "x", "a", "b", "l", "e", " ", "B", "e", "n", "e", "f", "i", "t", "s">>,
       <<"E", "m", "p", "l", "o", "y", "e", "r">>,
       <<"J", "o", "b", " ", "T", "i", "t", "l", "e">>,
       <<"C", "a", "l", "e", "n", "d", "a", "r", " ", "Y", "e", "a", "r">>>>,
     <<<<"S", "e", "c", "t", "o", "r">>,
       <<"L", "a", "s", "t", " ", "N", "a", "m", "e">>,
       <<"S", "a", "l", "a", "r", "y", " ", "P", "a", "i", "d">>,
       <<"T", "a", "x", "a", "b", "l", "e", " ", "B", "e", "n", "e", "f", "i", "t", "s">>,
       <<"E", "m", "p", "l", "o", "y", "e", "r">>,
       <<"J", "o", "b", " ", "T", "i", "t", "l", "e">>,
       <<"C", "a", "l", "e", "n", "d", "a", "r", " ", "Y", "e", "a", "r">>>>,
     <<<<"S", "e", "c", "t", "o", "r">>,
       <<"L", "a", "s", "t", " ", "N", "a", "m", "e">>,
       <<"F", "i", "r", "s", "t", " ", "N", "a", "m", "e">>,
       <<"T", "a", "x", "a", "b", "l", "e", " ", "B", "e", "n", "e", "f", "i", "t", "s">>,
       <<"E", "m", "p", "l", "o", "y", "e", "r">>,
       <<"J", "o", "b", " ", "T", "i", "t", "l", "e">>,
       <<"C", "a", "l", "e", "n", "d", "a", "r", " ", "Y", "e", "a", "r">>>>,
     <<<<"S", "e", "c", "t", "o", "r">>,
       <<"L", "a", "s", "t", " ", "N", "a", "m", "e">>,
       <<"F", "i", "r", "s", "t", " ", "N", "a", "m", "e">>,
       <<"S", "a", "l", "a", "r", "y", " ", "P", "a", "i", "d">>,
       <<"E", "m", "p", "l", "o", "y", "e", "r">>,
       <<"J", "o", "b", " ", "T", "i", "t", "l", "e">>,
       <<"C", "a", "l", "e", "n", "d", "a", "r", " ", "Y", "e", "a", "r">>>>,
     <<<<"S", "e", "c", "t", "o", "r">>,
       <<"L", "a", "s", "t", " ", "N", "a", "m", "e">>,
       <<"F", "i", "r", "s", "t", " ", "N", "a", "m", "e">>,
       <<"S", "a", "l", "a", "r", "y", " ", "P", "a", "i", "d">>,
       <<"T", "a", "x", "a", "b", "l", "e", " ", "B", "e", "n", "e", "f", "i", "t", "s">>,
       <<"J", "o", "b", " ", "T", "i", "t", "l", "e">>,
       <<"C", "a", "l", "e", "n", "d", "a", "r", " ", "Y", "e", "a", "r">>>>,
     <<<<"S", "e", "c", "t", "o", "r">>,
       <<"L", "a", "s", "t", " ", "N", "a", "m", "e">>,
       <<"F", "i", "r", "s", "t", " ", "N", "a", "m", "e">>,
       <<"S", "a", "l", "a", "r", "y", " ", "P", "a", "i", "d">>,
       <<"T", "a", "x", "a", "b", "l", "e", " ", "B", "e", "n", "e", "f", "i", "t", "s">>,
       <<"E", "m", "p", "l", "o", "y", "e", "r">>,
       <<"T", "i", "t", "l", "e">>,
       <<"C", "a", "l", "e", "n", "d", "a", "r", " ", "Y", "e", "a", "r">>>>}

\* The CSV files of API/raw in sorted order: "2019.csv", "2020.csv", "2021.csv"
FileNames ==
    <<<<"2", "0", "1", "9", ".", "c", "s", "v">>,
      <<"2", "0", "2", "0", ".", "c", "s", "v">>,
      <<"2", "0", "2", "1", ".", "c", "s", "v">>>>

\* salary and benefits cells of a data row: "100000" / "500.25", "$100,000.50" / "-",
\* "TBD" / "500.25", and "100000" / an empty cell (read_csv yields NaN)
RowCells ==
    {[salary |-> <<"1", "0", "0", "0", "0", "0">>,
      benefits |-> <<"5", "0", "0", ".", "2", "5">>],
     [salary |-> <<"$", "1", "0", "0", ",", "0", "0", "0", ".", "5", "0">>,
      benefits |-> <<"-">>],
     [salary |-> <<"T", "B", "D">>,
      benefits |-> <<"5", "0", "0", ".", "2", "5">>],
     [salary |-> <<"1", "0", "0", "0", "0", "0">>,
      benefits |-> NaN]}

\* the text cells of every data row: "Hospitals", " Smith", an empty first name,
\* "Acme Inc " and "RN"
TextCells ==
    [sector |-> <<"H", "o", "s", "p", "i", "t", "a", "l", "s">>,
     last_name |-> <<" ", "S", "m", "i", "t", "h">>,
     first_name |-> NaN,
     employer |-> <<"A", "c", "m", "e", " ", "I", "n", "c", " ">>,
     job_title |-> <<"R", "N">>]

\* a CSV file: its name, its header row and its data rows
CsvFiles(name) ==
    [name : {name},
     headers : HeaderRows,
     rows : UNION {[1..n -> RowCells] : n \in 0..MaxFileRows}]

\* int(str) for a str of decimal digits
DigitVal == [c \in DigitSet |-> (CHOOSE i \in DOMAIN Digits : Digits[i] = c) - 1]
RECURSIVE DigitsValue(_)
DigitsValue(s) ==
    IF s = <<>> THEN 0
    ELSE 10 * DigitsValue(SubSeq(s, 1, Len(s) - 1)) + DigitVal[s[Len(s)]]

\* filename.split('.')[0]
BeforeDot(s) ==
    IF \E i \in DOMAIN s : s[i] = "."
    THEN SubSeq(s, 1, (CHOOSE i \in DOMAIN s : s[i] = "." /\ \A j \in 1..(i - 1) : s[j] # ".") - 1)
    ELSE s

\* int(filename.split('.')[0]) raises ValueError
YearRaises(name) == BeforeDot(name) = <<>> \/ ~(Range(BeforeDot(name)) \subseteq DigitSet)

\* year = int(filename.split('.')[0])
FileYear(name) == DigitsValue(BeforeDot(name))

\* float(t) raises ValueError: t is not a decimal numeral (optional sign, digits with at
\* most one point). The exponent, inf, nan and underscore forms that float also reads
\* are outside the characters of the model.
FloatRaises(t) ==
    LET body == IF t # <<>> /\ t[1] \in {"+", "-"} THEN Tail(t) ELSE t IN
    \/ ~(Range(body) \subseteq (DigitSet \cup {"."}))
    \/ Cardinality({i \in DOMAIN body : body[i] = "."}) > 1
    \/ ~\E i \in DOMAIN body : body[i] \in DigitSet

\* float(t) for a decimal numeral
FloatOf(t) ==
    LET neg == t # <<>> /\ t[1] = "-"
        body == IF t # <<>> /\ t[1] \in {"+", "-"} THEN Tail(t) ELSE t
        dot == IF \E i \in DOMAIN body : body[i] = "."
               THEN CHOOSE i \in DOMAIN body : body[i] = "." ELSE Len(body)
        n == DigitsValue(KeepChars(body, DigitSet))
    IN  Float(IF neg THEN -n ELSE n, 10 ^ (Len(body) - dot))

\* clean_currency(x) raises ValueError
clean_currency_raises(x) ==
    /\ IsStr(x)
    /\ LET t == Strip(Replace(Replace(x, <<"$">>, <<>>), <<",">>, <<>>)) IN
       /\ t # <<"-">>
       /\ t # <<>>
       /\ FloatRaises(t)

\* clean_currency(x); float(NaN) is nan
clean_currency(x) ==
    IF IsStr(x)
    THEN LET t == Strip(Replace(Replace(x, <<"$">>, <<>>), <<",">>, <<>>)) IN
         IF t = <<"-">> \/ t = <<>> THEN Float(0, 1) ELSE FloatOf(t)
    ELSE FloatNaN

\* a + b on floats
FloatAdd(a, b) ==
    IF a.kind = "nan" \/ b.kind = "nan" THEN FloatNaN
    ELSE IF a.kind = "num" /\ b.kind = "num" THEN Float(a.n * b.d + b.n * a.d, a.d * b.d)
    ELSE IF a.kind = "num" THEN b
    ELSE IF b.kind = "num" THEN a
    ELSE IF a.kind = b.kind THEN a ELSE FloatNaN

\* the columns of a file after strip, lower and the rename through COLUMN_MAP
columns(headers) ==
    [k \in DOMAIN headers |->
        LET col == Lower(Strip(headers[k])) IN
        IF \E e \in COLUMN_MAP : e[1] = col
        THEN (CHOOSE e \in COLUMN_MAP : e[1] = col)[2]
        ELSE col]

\* computed once per header row and per cell
ColumnsOf == [h \in HeaderRows |-> Range(columns(h))]
Cells == {c.salary : c \in RowCells} \cup {c.benefits : c \in RowCells}
CleanRaises == [x \in Cells |-> clean_currency_raises(x)]
CleanOf == [x \in Cells |-> IF clean_currency_raises(x) THEN FloatNaN ELSE clean_currency(x)]

\* Series.fillna('').astype(str).str.strip()
StripText(x) == Strip(Fillna(x, <<>>))

\* process_file: "none" when a required column is missing, "raised" when an exception
\* leaves it, else "ok" with the DataFrame returned
process_file(file) ==
    IF YearRaises(file.name) THEN [status |-> "raised", df |-> <<>>]
    ELSE IF \E k \in DOMAIN required : required[k] \notin ColumnsOf[file.headers]
    THEN [status |-> "none", df |-> <<>>]
    ELSE IF \E k \in DOMAIN file.rows :
                CleanRaises[file.rows[k].salary] \/ CleanRaises[file.rows[k].benefits]
    THEN [status |-> "raised", df |-> <<>>]
    ELSE [status |-> "ok",
          df |-> [k \in DOMAIN file.rows |->
                     [year |-> FileYear(file.name),
                      sector |-> TextCells.sector,
                      last_name |-> StripText(TextCells.last_name),
                      first_name |-> StripText(TextCells.first_name),
                      employer |-> StripText(TextCells.employer),
                      job_title |-> StripText(TextCells.job_title),
                      salary |-> CleanOf[file.rows[k].salary],
                      benefits |-> CleanOf[file.rows[k].benefits],
                      total_comp |-> FloatAdd(CleanOf[file.rows[k].salary],
                                              CleanOf[file.rows[k].benefits])]]]

\* pd.concat(all_dfs, ignore_index=True)
RECURSIVE concat(_)
concat(dfs) == IF dfs = <<>> THEN <<>> ELSE Head(dfs) \o concat(Tail(dfs))

\* one pass of the loop over files, lines 91-98
ProcessNextFile ==
    /\ ingest_pc = "loop"
    /\ file_idx <= Len(raw_files)
    /\ LET f == raw_files[file_idx] IN
       IF f.name[1] \notin DigitSet
       THEN /\ outcomes' = Append(outcomes, "skipped")
            /\ UNCHANGED all_dfs
       ELSE LET res == process_file(f) IN
            /\ all_dfs' = IF res.status = "ok" THEN Append(all_dfs, res.df) ELSE all_dfs
            /\ outcomes' = Append(outcomes, res.status)
    /\ file_idx' = file_idx + 1
    /\ UNCHANGED <<raw_files, final_df, output_written, ingest_pc>>
    /\ UNCHANGED <<linkVars, normVars, canonVars, familyVars, metricVars, pipeVars, validateVars>>

\* lines 100-106: the staged file is written when some file gave a DataFrame
WriteStaging ==
    /\ ingest_pc = "loop"
    /\ file_idx > Len(raw_files)
    /\ IF all_dfs # <<>>
       THEN /\ final_df' = concat(all_dfs)
            /\ output_written' = TRUE
       ELSE UNCHANGED <<final_df, output_written>>
    /\ ingest_pc' = "done"
    /\ UNCHANGED <<raw_files, file_idx, all_dfs, outcomes>>
    /\ UNCHANGED <<linkVars, normVars, canonVars, familyVars, metricVars, pipeVars, validateVars>>

InitIngest ==
    /\ \E n \in 0..MaxFiles :
          raw_files \in {fs \in [1..n -> UNION {CsvFiles(FileNames[k]) : k \in 1..n}] :
                            \A k \in 1..n : fs[k].name = FileNames[k]}
    /\ file_idx = 1
    /\ all_dfs = <<>>
    /\ outcomes = <<>>
    /\ final_df = <<>>
    /\ output_written = FALSE
    /\ ingest_pc = "loop"
    /\ IdleLink /\ IdleNorm /\ IdleCanon /\ IdleFamily /\ IdleMetrics /\ IdlePipe /\ IdleValidate

NextIngest == ProcessNextFile \/ WriteStaging

SpecIngest == InitIngest /\ [][NextIngest]_vars

----------------------------------------------------------------------------
(* Properties of ingest *)

\* the file has no column for some required field after the header mapping
LacksRequired(file) == \E k \in DOMAIN required : required[k] \notin Range(columns(file.headers))

\* the staged rows that came from the k-th file
StagedFrom(k) == SelectSeq(final_df, LAMBDA r : r.year = FileYear(raw_files[k].name))

\* C20: when a file lacks a required column (sector, last_name, first_name, salary,
\* benefits, employer, job_title after the header mapping), none of its rows is
\* staged, every row of every other file that has the required columns is staged,
\* and the script visits every file and ends.
C20_MissingFieldFileIsSkipped ==
    (ingest_pc = "done") =>
        \A k \in DOMAIN raw_files :
            LacksRequired(raw_files[k]) =>
                /\ StagedFrom(k) = <<>>
                /\ Len(outcomes) = Len(raw_files)
                /\ \A j \in DOMAIN raw_files :
                      ~LacksRequired(raw_files[j]) =>
                          Len(StagedFrom(j)) = Len(raw_files[j].rows)

\* the cell is a string that is not a number once '$', ',' and the surrounding blanks
\* are removed
Unparseable(x) ==
    /\ IsStr(x)
    /\ FloatRaises(Strip(Replace(Replace(x, <<"$">>, <<>>), <<",">>, <<>>)))

\* C21: in a file that has the required columns, a salary or benefits cell that cannot
\* be parsed as a number is staged as 0 for its record, the record is kept, and every
\* other record of the same file is staged too.
C21_MalformedValueBecomesZero ==
    (ingest_pc = "done") =>
        \A k \in DOMAIN raw_files :
            LET rows == raw_files[k].rows IN
            (~LacksRequired(raw_files[k])
                /\ \E i \in DOMAIN rows :
                      Unparseable(rows[i].salary) \/ Unparseable(rows[i].benefits)) =>
                /\ Len(StagedFrom(k)) = Len(rows)
                /\ \A i \in DOMAIN rows :
                      /\ Unparseable(rows[i].salary) => StagedFrom(k)[i].salary = Float(0, 1)
                      /\ Unparseable(rows[i].benefits) => StagedFrom(k)[i].benefits = Float(0, 1)

----------------------------------------------------------------------------
(* validate_data.py: the data-quality report *)

\* rows of fact_comp.parquet as the checks read them: a plain record, one with an empty
\* first name below the threshold, one above 2,000,000, one with total_comp 0, one
\* with a null total_comp, and one that differs from the first in total_comp only
ReportRows ==
    {[first_name |-> <<"A">>, last_name |-> <<"S">>, employer_canonical |-> <<"E", "1">>,
      total_comp |-> Float(150000, 1), year |-> 1, person_id |-> <<"1">>,
      job_canonical |-> <<"R", "N">>],
     [first_name |-> <<>>, last_name |-> <<"S">>, employer_canonical |-> <<"E", "1">>,
      total_comp |-> Float(90000, 1), year |-> 1, person_id |-> <<"2">>,
      job_canonical |-> <<"R", "N">>],
     [first_name |-> <<"A">>, last_name |-> <<"S">>, employer_canonical |-> <<"E", "2">>,
      total_comp |-> Float(3000000, 1), year |-> 2, person_id |-> <<"3">>,
      job_canonical |-> <<"C", "E", "O">>],
     [first_name |-> <<"A">>, last_name |-> <<"S">>, employer_canonical |-> <<"E", "1">>,
      total_comp |-> Float(0, 1), year |-> 2, person_id |-> <<"1">>,
      job_canonical |-> <<"R", "N">>],
     [first_name |-> <<"A">>, last_name |-> <<"S">>, employer_canonical |-> <<"E", "1">>,
      total_comp |-> FloatNaN, year |-> 1, person_id |-> <<"1">>,
      job_canonical |-> <<"R", "N">>],
     [first_name |-> <<"A">>, last_name |-> <<"S">>, employer_canonical |-> <<"E", "1">>,
      total_comp |-> Float(200000, 1), year |-> 1, person_id |-> <<"1">>,
      job_canonical |-> <<"R", "N">>]}

\* the columns of dtype object (text); total_comp is float64 and year is int64
ObjectFields == {"first_name", "last_name", "employer_canonical"}

critical_fields == <<"first_name", "last_name", "employer_canonical", "total_comp", "year">>

\* df[field].isna().sum()
null_count(rows, field) ==
    Cardinality({k \in DOMAIN rows :
        IF field = "total_comp" THEN ~notna(rows[k].total_comp)
        ELSE IF field \in ObjectFields THEN rows[k][field] = NaN
        ELSE FALSE})

\* (df[field] == '').sum() if df[field].dtype == 'object' else 0
empty_count(rows, field) ==
    IF field \in ObjectFields
    THEN Cardinality({k \in DOMAIN rows : rows[k][field] = <<>>})
    ELSE 0

check_null_values(rows) ==
    LET hit == SelectSeq(critical_fields,
                         LAMBDA f : null_count(rows, f) > 0 \/ empty_count(rows, f) > 0)
    IN  [i \in DOMAIN hit |->
            [check |-> "null_values",
             field |-> hit[i],
             null_count |-> null_count(rows, hit[i]),
             empty_count |-> empty_count(rows, hit[i]),
             severity |-> IF hit[i] \in {"total_comp", "year"} THEN "high" ELSE "medium"]]

\* a > b and a <= 0 on a float column: comparisons with nan are False
FloatGreater(a, b) == notna(a) /\ notna(b) /\ FloatLess(b, a)

\* Series.max() of a column without nan
RECURSIVE FloatMax(_)
FloatMax(vs) ==
    IF Len(vs) = 1 THEN vs[1]
    ELSE LET m == FloatMax(Tail(vs)) IN IF FloatLess(m, vs[1]) THEN vs[1] ELSE m

\* DataFrame.head(n)
head(rows, n) == SubSeq(rows, 1, IF Len(rows) < n THEN Len(rows) ELSE n)

check_salary_anomalies(rows) ==
    LET high_salary == SelectSeq(rows, LAMBDA r : FloatGreater(r.total_comp, Float(2000000, 1)))
        zero_salary == SelectSeq(rows, LAMBDA r : notna(r.total_comp)
                                                  /\ ~FloatLess(Float(0, 1), r.total_comp))
        low_salary == SelectSeq(rows, LAMBDA r : /\ FloatGreater(r.total_comp, Float(0, 1))
                                                 /\ FloatGreater(Float(100000, 1), r.total_comp))
        top == head(high_salary, 5)
    IN  (IF Len(high_salary) > 0
         THEN <<[check |-> "high_salary",
                 count |-> Len(high_salary),
                 max_value |-> FloatMax([k \in DOMAIN high_salary |-> high_salary[k].total_comp]),
                 severity |-> "info",
                 sample |-> [k \in DOMAIN top |->
                                [first_name |-> top[k].first_name,
                                 last_name |-> top[k].last_name,
                                 employer_canonical |-> top[k].employer_canonical,
                                 total_comp |-> top[k].total_comp,
                                 year |-> top[k].year]]]>>
         ELSE <<>>)
        \o (IF Len(zero_salary) > 0
            THEN <<[check |-> "zero_negative_salary",
                    count |-> Len(zero_salary),
                    severity |-> "medium",
                    years_affected |-> SortedSeq({zero_salary[k].year : k \in DOMAIN zero_salary})]>>
            ELSE <<>>)
        \o (IF Len(low_salary) > 0
            THEN <<[check |-> "below_threshold",
                    count |-> Len(low_salary),
                    severity |-> "low",
                    note |-> "Records below $100K threshold - may be partial year or data issue"]>>
            ELSE <<>>)

\* the texts of a set in ascending order (the sorted index of a groupby or pivot)
SortedTexts(S) ==
    [k \in 1..Cardinality(S) |-> CHOOSE x \in S : Cardinality({y \in S : StrLess(y, x)}) = k - 1]

\* employer_pivot[year][emp]: the rows of the employer in the year, 0 where the pivot
\* has no cell
employer_count(rows, emp, year) ==
    Cardinality({k \in DOMAIN rows : rows[k].employer_canonical = emp /\ rows[k].year = year})

\* round(n / d, 0) for n >= 0, d > 0: to the nearest integer, ties to the even one
RoundHalfEven(n, d) ==
    LET q == n \div d
        r == n % d
    IN  IF 2 * r < d THEN q
        ELSE IF 2 * r > d THEN q + 1
        ELSE IF q % 2 = 0 THEN q ELSE q + 1

\* lines 83-101: the drops found between the columns col_idx - 1 and col_idx of the pivot
drops_at(rows, cols, index, col_idx) ==
    LET curr_year == cols[col_idx]
        prev_year == cols[col_idx - 1]
        prev(emp) == employer_count(rows, emp, prev_year)
        curr(emp) == employer_count(rows, emp, curr_year)
        dropped == SelectSeq(index, LAMBDA emp : /\ prev(emp) >= 50
                                                 /\ 2 * curr(emp) < prev(emp)
                                                 /\ curr(emp) > 0)
        first5 == head(dropped, 5)
    IN  [i \in DOMAIN first5 |->
            [employer |-> first5[i],
             year |-> curr_year,
             prev_count |-> prev(first5[i]),
             curr_count |-> curr(first5[i]),
             drop_pct |-> Float(RoundHalfEven((prev(first5[i]) - curr(first5[i])) * 1000,
                                              prev(first5[i])), 10)]]

RECURSIVE large_drops(_, _, _, _)
large_drops(rows, cols, index, col_idx) ==
    IF col_idx > Len(cols) THEN <<>>
    ELSE drops_at(rows, cols, index, col_idx) \o large_drops(rows, cols, index, col_idx + 1)

check_year_consistency(rows) ==
    LET cols == SortedSeq({rows[k].year : k \in DOMAIN rows})
        index == SortedTexts({rows[k].employer_canonical : k \in DOMAIN rows})
        drops == large_drops(rows, cols, index, 2)
    IN  IF drops # <<>>
        THEN <<[check |-> "large_headcount_drops",
                count |-> Len(drops),
                severity |-> "info",
                samples |-> head(drops, 10)]>>
        ELSE <<>>

dup_cols(r) == <<r.first_name, r.last_name, r.employer_canonical, r.year, r.total_comp>>
near_dup_cols(r) == <<r.first_name, r.last_name, r.employer_canonical, r.year>>

\* df[df.duplicated(subset=..., keep=False)]: the rows whose key another row has too
\* keys[k] is the subset of columns of rows[k]
duplicated(rows, keys) ==
    LET marked == SelectSeq([k \in DOMAIN rows |-> k],
                            LAMBDA k : Cardinality({j \in DOMAIN rows : keys[j] = keys[k]}) > 1)
    IN  [i \in DOMAIN marked |-> rows[marked[i]]]

check_duplicates(rows) ==
    LET exact_dups == duplicated(rows, [k \in DOMAIN rows |-> dup_cols(rows[k])])
        near_dups == duplicated(rows, [k \in DOMAIN rows |-> near_dup_cols(rows[k])])
        \* groupby leaves out the keys that hold a null
        ngroups == Cardinality({dup_cols(exact_dups[k]) :
                                   k \in {j \in DOMAIN exact_dups : notna(exact_dups[j].total_comp)}})
        near_only == Len(near_dups) - Len(exact_dups)
    IN  (IF Len(exact_dups) > 0
         THEN <<[check |-> "exact_duplicates",
                 count |-> Len(exact_dups),
                 unique_groups |-> ngroups,
                 severity |-> "high"]>>
         ELSE <<>>)
        \o (IF near_only > 0
            THEN <<[check |-> "same_person_employer_year",
                    count |-> near_only,
                    severity |-> "low",
                    note |-> "May indicate job changes within same year/employer"]>>
            ELSE <<>>)

\* Series.sum(): nan values are skipped
RECURSIVE FloatSum(_)
FloatSum(vs) ==
    IF vs = <<>> THEN Float(0, 1)
    ELSE IF notna(Head(vs)) THEN FloatAdd(Head(vs), FloatSum(Tail(vs)))
    ELSE FloatSum(Tail(vs))

\* Series.mean(): nan values are skipped, nan when nothing is left
FloatMean(vs) ==
    LET xs == SelectSeq(vs, notna)
        total == FloatSum(xs)
    IN  IF xs = <<>> THEN FloatNaN ELSE Float(total.n, total.d * Len(xs))

\* generate_summary_stats raises: int(nan) for the year range of an empty table
summary_raises(rows) == rows = <<>>

generate_summary_stats(rows) ==
    LET yrs == {rows[k].year : k \in DOMAIN rows}
        comps == [k \in DOMAIN rows |-> rows[k].total_comp]
    IN  [total_records |-> Len(rows),
         year_range |-> <<CHOOSE y \in yrs : \A z \in yrs : y <= z,
                          CHOOSE y \in yrs : \A z \in yrs : z <= y>>,
         unique_employers |-> Cardinality({rows[k].employer_canonical : k \in DOMAIN rows} \ {NaN}),
         unique_persons |-> Cardinality({rows[k].person_id : k \in DOMAIN rows} \ {NaN}),
         unique_job_titles |-> Cardinality({rows[k].job_canonical : k \in DOMAIN rows} \ {NaN}),
         total_compensation_sum |-> FloatSum(comps),
         mean_compensation |-> FloatMean(comps),
         median_compensation |-> Median(comps)]

\* str(n) filled with zeros on the left to six digits
Pad6(n) == LET t == IntToStr(n) IN [k \in 1..(6 - Len(t)) |-> "0"] \o t

\* datetime.isoformat() with the date and the time of day folded into a count of
\* seconds: the fraction is written only when the microsecond is not 0
isoformat(t) ==
    IntToStr(t.second) \o (IF t.microsecond = 0 THEN <<>> ELSE <<".">> \o Pad6(t.microsecond))

\* the issues of the given severity
of_severity(issues, sev) == SelectSeq(issues, LAMBDA i : i.severity = sev)

\* lines 169-201: the report main() builds when the clock reads t
report(rows, t) ==
    LET all_issues == check_null_values(rows) \o check_salary_anomalies(rows)
                      \o check_year_consistency(rows) \o check_duplicates(rows)
    IN  [generated_at |-> isoformat(t),
         summary |-> generate_summary_stats(rows),
         issue_counts |-> [high |-> Len(of_severity(all_issues, "high")),
                           medium |-> Len(of_severity(all_issues, "medium")),
                           low |-> Len(of_severity(all_issues, "low")),
                           info |-> Len(of_severity(all_issues, "info"))],
         issues |-> all_issues]

\* the readings of the wall clock
Clock == [second : 0..MaxSecond, microsecond : {0, 500000}]

\* time passes: half a second at a step
Tick ==
    /\ validate_pc = "ready"
    /\ now' = IF now.microsecond = 0
              THEN [now EXCEPT !.microsecond = 500000]
              ELSE [second |-> now.second + 1, microsecond |-> 0]
    /\ now' \in Clock
    /\ UNCHANGED <<report_input, report_file, run_reports, validate_pc>>
    /\ UNCHANGED <<linkVars, normVars, canonVars, familyVars, metricVars, pipeVars, ingestVars>>

\* one run of main(): nothing is written when INPUT_FILE is missing (lines 161-164) or
\* when an exception ends the run before line 205
ValidateData ==
    /\ validate_pc = "ready"
    /\ Len(run_reports) < MaxRuns
    /\ report_file' = IF report_input.exists /\ ~summary_raises(report_input.rows)
                      THEN <<report(report_input.rows, now)>>
                      ELSE report_file
    /\ run_reports' = Append(run_reports, report_file')
    /\ UNCHANGED <<report_input, now, validate_pc>>
    /\ UNCHANGED <<linkVars, normVars, canonVars, familyVars, metricVars, pipeVars, ingestVars>>

InitValidate ==
    /\ report_input \in
          {[exists |-> FALSE, rows |-> <<>>]}
          \cup [exists : {TRUE}, rows : UNION {[1..n -> ReportRows] : n \in 0..MaxReportRows}]
    /\ now = [second |-> 0, microsecond |-> 0]
    /\ report_file = <<>>
    /\ run_reports = <<>>
    /\ validate_pc = "ready"
    /\ IdleLink /\ IdleNorm /\ IdleCanon /\ IdleFamily /\ IdleMetrics /\ IdlePipe /\ IdleIngest

NextValidate == Tick \/ ValidateData

SpecValidate == InitValidate /\ [][NextValidate]_vars

----------------------------------------------------------------------------
(* Properties of the validation stage *)

\* C22: two runs of the validation stage on the same fact table leave identical
\* reports, whatever the times at which they run.
C22_ReportIsDeterministic ==
    \A i, j \in DOMAIN run_reports : run_reports[i] = run_reports[j]

----------------------------------------------------------------------------
(* link_persons.py followed by generate_analytics_complex.py: the employer metrics
   of the fact table the linker wrote *)

\* the rows the linker is run on here: job_family, which fast_link_persons does not
\* read, and total_comp, which only orders the rows of one name and year, are the
\* same in all of them
ChainRows == {r \in InputRows : r.job_family = "Other" /\ r.total_comp = 100}

\* pd.read_parquet(INPUT_FILE) of the linker: the frame gets a RangeIndex
WithRangeIndex(rows) == [i \in DOMAIN rows |-> AddColumn(rows[i], "idx", i - 1)]

\* generate_analytics_complex.py main(): df = pd.read_parquet(INPUT_FILE), the fact
\* table link_persons.py wrote, rows in the order the linker left them
ReadFactComp ==
    /\ link_pc = "linked"
    /\ metrics_pc = "idle"
    /\ fact_comp' = [k \in DOMAIN fact |->
                        [person_id |-> fact[k].person_id,
                         employer_id |-> fact[k].employer_id,
                         year |-> fact[k].year,
                         total_comp |-> fact[k].total_comp]]
    /\ metrics_pc' = "facts"
    /\ UNCHANGED <<merged_frames, employer_metrics>>
    /\ UNCHANGED <<linkVars, normVars, canonVars, familyVars, pipeVars, ingestVars, validateVars>>

InitChain ==
    /\ df \in {WithRangeIndex(rows) : rows \in UNION {[1..n -> ChainRows] : n \in 0..MaxRecords}}
    /\ fact = <<>>
    /\ link_pc = "load"
    /\ IdleNorm /\ IdleCanon /\ IdleRest

NextChain == LinkPersons \/ ReadFactComp \/ GenerateEmployerMetrics

SpecChain == InitChain /\ [][NextChain]_vars

----------------------------------------------------------------------------
(* Properties of the metrics of linked records *)

\* the records of the person chain of fact[k] in a strictly earlier year
EarlierInChain(k) ==
    {j \in DOMAIN fact : fact[j].person_id = fact[k].person_id /\ fact[j].year < fact[k].year}

----------------------------------------------------------------------------
(* normalize_employers.py, normalize_jobs.py and link_persons.py run one after the
   other on the staged rows *)

\* the rows of stg_rows.parquet with every column ingest.py writes; amounts are whole
\* numbers and total_comp is salary + benefits (ingest.py line 78)
StagedRecords ==
    {[year |-> y, sector |-> s, last_name |-> <<"s">>, first_name |-> <<"j">>,
      employer |-> e, job_title |-> j, salary |-> 100, benefits |-> b,
      total_comp |-> 100 + b] :
        y \in 1..2, s \in Sectors, b \in {0, 100},
        e \in {<<"A", "c", "m", "e", " ", "I", "n", "c">>,
               <<"a", "c", "m", "e", " ", "i", "n", "c">>},
        j \in {<<"R", "N">>,
               <<"N", "u", "r", "s", "e", " ", " ", "/", " ", " ", "R", "N">>}}

\* link_persons.py main(): the rows of stg_rows_enriched_2.parquet are read, linked
\* and written as the fact table
LinkEnriched ==
    /\ canon_pc = "jobs"
    /\ link_pc = "load"
    /\ df' = WithRangeIndex(enriched_2)
    /\ fact' = fast_link_persons(df')
    /\ link_pc' = "linked"
    /\ UNCHANGED <<normVars, canonVars, restVars>>

InitFact ==
    /\ stg_rows \in UNION {[1..n -> StagedRecords] : n \in 0..MaxRows}
    /\ employer_aliases \in AliasFiles(EmployerAliasCsv)
    /\ job_aliases \in AliasFiles(JobTitleAliasCsv)
    /\ enriched = <<>>
    /\ dim_employer = <<>>
    /\ enriched_2 = <<>>
    /\ dim_job = <<>>
    /\ canon_pc = "staging"
    /\ IdleLink
    /\ IdleNorm
    /\ IdleRest

NextFact == NormalizeEmployers \/ NormalizeJobs \/ LinkEnriched

SpecFact == InitFact /\ [][NextFact]_vars

----------------------------------------------------------------------------
(* Properties of the fact table *)

\* the columns of a staged record that the later stages must leave alone
carried_cols == {"year", "sector", "first_name", "last_name", "salary", "benefits", "total_comp"}

\* the fact records that come from the i-th staged record
FactsOf(i) == {k \in DOMAIN fact : fact[k].idx = i - 1}

\* C24: each merge-back leaves one row per staged record, in the staged order, and
\* after linking every staged record has exactly one fact record, whose year, sector,
\* names, salary, benefits and total_comp are those of the staged record, with
\* total_comp = salary + benefits.
C24_RecordConservation ==
    /\ canon_pc \in {"employers", "jobs"} =>
          /\ Len(enriched) = Len(stg_rows)
          /\ \A i \in DOMAIN stg_rows :
                \A c \in DOMAIN stg_rows[i] : enriched[i][c] = stg_rows[i][c]
    /\ canon_pc = "jobs" =>
          /\ Len(enriched_2) = Len(stg_rows)
          /\ \A i \in DOMAIN stg_rows :
                \A c \in DOMAIN stg_rows[i] : enriched_2[i][c] = stg_rows[i][c]
    /\ link_pc = "linked" =>
          /\ Len(fact) = Len(stg_rows)
          /\ \A i \in DOMAIN stg_rows :
                /\ Cardinality(FactsOf(i)) = 1
                /\ \A k \in FactsOf(i) :
                      /\ \A c \in carried_cols : fact[k][c] = stg_rows[i][c]
                      /\ fact[k].total_comp = fact[k].salary + fact[k].benefits

\* two staged records with different employer texts of one canonical employer, which
\* the linker's sort put in the opposite order
C24_Witness ==
    /\ link_pc = "linked"
    /\ Len(stg_rows) = 2
    /\ stg_rows[1].employer # stg_rows[2].employer
    /\ fact[1].employer_id = fact[2].employer_id
    /\ Len(dim_employer) = 1
    /\ fact[1].idx = 1
    /\ fact[1].person_id = fact[2].person_id

=============================================================================
